---- MODULE Spec2Model ----
(***************************************************************************)
(* Wallet ledger and witness cache of litecoinz (src/wallet/wallet.cpp).   *)
(*                                                                         *)
(* The wallet is modelled as the state CWallet keeps under cs_wallet:      *)
(* mapWallet, the three spend multimaps, the order counter and wtxOrdered. *)
(* The active chain is a sequence of blocks; a block is identified by the  *)
(* chain prefix that ends in it (a block hash commits to its ancestors).   *)
(* Every validation-interface handler is one action that runs the whole    *)
(* handler, including the handlers it calls.                               *)
(***************************************************************************)
EXTENDS Integers, Sequences, FiniteSets, TLC

\* ------------------------------------------------------------------------
\* Bounds of the model
\* ------------------------------------------------------------------------

\* Longest active chain explored by the ledger specification (the chain is
\* unbounded in the program).
MaxHeight == 3

\* Longest active chain explored by the witness-cache specification.
MaxWitnessHeight == 5

\* Latest adjusted time explored (the clock starts at 0).
MaxTime == 1

\* Witness ring-buffer bound, scaled down from the program's value so that
\* trimming and "spent deeper than the cache" happen within MaxHeight.
WITNESS_CACHE_SIZE == 2

TxIds == 1..5

\* ------------------------------------------------------------------------
\* The transactions that can ever be seen (CTransaction payloads).
\* An outpoint is the id of the transaction whose output 0 it names;
\* 0 names an output of a transaction the wallet does not hold.
\*   tx 1 : funds the wallet, and carries three Sapling outputs, the
\*          middle one addressed to the wallet
\*   tx 2 : spends tx 1's transparent output; one JoinSplit whose first
\*          output note is the wallet's
\*   tx 3 : also spends tx 1's transparent output (double spend of tx 2);
\*          one Sapling output of somebody else
\*   tx 4 : purely shielded: spends the wallet's Sprout note of tx 2 and
\*          the wallet's Sapling note of tx 1
\*   tx 5 : spends tx 2's transparent output
\* ------------------------------------------------------------------------

vin(t) ==
    CASE t = 1 -> {0}
      [] t = 2 -> {1}
      [] t = 3 -> {1}
      [] t = 4 -> {}
      [] t = 5 -> {2}

\* Sapling output commitments (vShieldedOutput[i].cm), in order.
vShieldedOutput(t) ==
    CASE t = 1 -> << <<1, 0>>, <<1, 1>>, <<1, 2>> >>
      [] t = 3 -> << <<3, 0>> >>
      [] OTHER -> << >>

\* Sprout commitments of the JoinSplits, flattened in (js, n) order.
vJoinSplitCommitments(t) ==
    CASE t = 2 -> << <<2, 0>>, <<2, 1>> >>
      [] t = 4 -> << <<4, 0>>, <<4, 1>> >>
      [] OTHER -> << >>

\* The nullifier a Sapling note reveals depends on its position in the
\* commitment tree; a Sprout nullifier depends on the note only.
SaplingNf(op, position) == <<"sapling", op, position>>
SproutNf(op) == <<"sprout", op>>

\* Output notes the wallet can decrypt.
MySaplingOps(t) == IF t = 1 THEN {<<1, 1>>} ELSE {}
MySproutOps(t) == IF t = 2 THEN {<<2, 0>>} ELSE {}

\* Nullifiers revealed by the transaction (vShieldedSpend, vJoinSplit).
vShieldedSpend(t) == IF t = 4 THEN {SaplingNf(<<1, 1>>, 1)} ELSE {}
vJoinSplitNullifiers(t) == IF t = 4 THEN {SproutNf(<<2, 0>>)} ELSE {}

OutPoints == 0..5
SaplingNullifiers == {SaplingNf(<<1, 1>>, p) : p \in 0..3}
SproutNullifiers == {SproutNf(<<2, 0>>)}

NullHash == << >>
NoNullifier == <<"none">>

VARIABLES
    chain,                   \* ::ChainActive(): block contents, height 1..Len
    mapWallet,               \* txid -> CWalletTx, for the txids held
    mapTxSpends,             \* outpoint -> wtxids registered, insertion order
    mapTxSproutNullifiers,   \* nullifier -> wtxids registered
    mapTxSaplingNullifiers,  \* nullifier -> wtxids registered
    nOrderPosNext,           \* next order position
    wtxOrdered,              \* set of <<nOrderPos, txid>>
    haveKeys,                \* the key store holds the shielded keys
    haveChangeKeys,          \* ... and those of the address tx 4 pays change to
    migration,               \* the Sprout-to-Sapling migration: queue, operation id, pending
    unloading,               \* the wallet handle: its holders, UnloadWallet, ReleaseWallet
    network,                 \* the transactions the network ever relays
    nNow,                    \* the adjusted time (chain().getAdjustedTime())
    walk,                    \* the walk in progress: kind, todo, done, taken
    database,                \* the wallet file: what is persisted
    coins,                   \* the unspent outputs AvailableCoins can return
    setLockedCoins,          \* the outputs locked against spending
    keyPool,                 \* the key pool sets and m_max_keypool_index
    policy,                  \* fee rates, limits and flags of the wallet
    create,                  \* the CreateTransaction call in progress or returned
    scan,                    \* the ScanForWalletTransactions call in progress
    threads,                 \* the threads in wallet code, and who holds cs_wallet
    last                     \* what the last handler did (observation only)

vars == <<chain, mapWallet, mapTxSpends, mapTxSproutNullifiers,
          mapTxSaplingNullifiers, nOrderPosNext, wtxOrdered, haveKeys, haveChangeKeys, migration, unloading, network,
          nNow, walk, database, coins, setLockedCoins, keyPool, policy, create,
          scan, threads, last>>

\* The variables the ledger handlers leave alone.
untouched == <<database, coins, setLockedCoins, keyPool, policy, create>>

\* The wallet file: the transaction records, the witness-cache size and the
\* best-block locator it holds.
EmptyDatabase == [tx |-> << >>, witnesscachesize |-> -1, bestblock |-> <<"none">>]

\* A wallet that holds no coin and no pool key, and no CreateTransaction call.
EmptyKeyPool ==
    [setInternalKeyPool |-> {}, setExternalKeyPool |-> {},
     set_pre_split_keypool |-> {}, m_max_keypool_index |-> 0, entries |-> {},
     fLocked |-> FALSE, fHDSplit |-> TRUE, fCanGenerateKeys |-> TRUE]

NoPolicy == [feeRate |-> 0]

NoCreate == [phase |-> "none"]

\* No rescan was reserved, and no thread is inside the wallet.
NoScan == [pc |-> "idle"]

\* The threads that run wallet code: the scheduler thread, which delivers
\* the validation-interface callbacks one after the other, and a thread
\* serving a request.
ThreadIds == {"scheduler", "rpc"}

IdleThread == [op |-> "none", at |-> "idle"]

NoThreads == [pc |-> [th \in ThreadIds |-> IdleThread], cs_wallet |-> "none"]

\* A wallet started without -migration on a chain where Sapling is active
\* from the first block: no operation was created, nothing is pending.
NoMigration ==
    [fSaplingMigrationEnabled |-> FALSE, nActivationHeight |-> 1, queue |-> << >>,
     nextOperationId |-> 1, saplingMigrationOperationId |-> 0,
     pendingSaplingMigrationTxs |-> << >>]

\* A loaded wallet nobody is unloading: the wallet list holds the only
\* reference, and the deleter has not run.
NoUnloading ==
    [holders |-> {"vpwallets"}, g_unloading_wallet_set |-> {}, pc |-> "idle",
     release |-> "none", releasedBy |-> "none"]

\* The state of the variables a ledger specification does not use.
NoSpending ==
    /\ coins = << >>
    /\ setLockedCoins = {}
    /\ keyPool = EmptyKeyPool
    /\ policy = NoPolicy
    /\ create = NoCreate
    /\ scan = NoScan
    /\ threads = NoThreads

\* ------------------------------------------------------------------------
\* The chain collaborator (interfaces::Chain, ::ChainActive()).
\* Block b of the active chain c at height h is c[h]: the transaction it
\* holds, or 0 when it holds none of the universe.  Its hash is the prefix
\* of c ending at h.  Height 0 is the genesis block, with empty trees.
\* ------------------------------------------------------------------------

Min(a, b) == IF a < b THEN a ELSE b
Max(a, b) == IF a > b THEN a ELSE b

RECURSIVE Flatten(_)
Flatten(ss) == IF ss = << >> THEN << >> ELSE Head(ss) \o Flatten(Tail(ss))

BlockVtx(b) == IF b = 0 THEN << >> ELSE <<b>>

HashAt(c, h) == SubSeq(c, 1, h)

InActiveChain(c, hash) ==
    /\ hash # NullHash
    /\ Len(hash) <= Len(c)
    /\ SubSeq(c, 1, Len(hash)) = hash

\* Depth of a block in the active chain: 1 for the tip, 0 when the block
\* is not in the active chain.
getBlockDepth(c, hash) ==
    IF InActiveChain(c, hash) THEN Len(c) - Len(hash) + 1 ELSE 0

\* CBlockIndex::hashSaplingRoot / hashSproutRoot of the block at height h.
\* A tree root is modelled by the sequence of commitments the tree holds.
hashSaplingRoot(c, h) ==
    Flatten([i \in 1..h |-> vShieldedOutput(c[i])])

hashSproutRoot(c, h) ==
    Flatten([i \in 1..h |-> vJoinSplitCommitments(c[i])])

BlockRoot(kind, c, h) ==
    IF kind = "sapling" THEN hashSaplingRoot(c, h) ELSE hashSproutRoot(c, h)

BlockCommitments(kind, b) ==
    IF kind = "sapling" THEN vShieldedOutput(b) ELSE vJoinSplitCommitments(b)

\* Block time: the block at height h carries time h.
BlockTime(hash) == Len(hash)

\* ------------------------------------------------------------------------
\* Incremental witnesses.  A witness is the tree it was taken from plus
\* everything appended since, and the position of the witnessed note.
\* ------------------------------------------------------------------------

TreeWitness(tree) == [position |-> Len(tree) - 1, tree |-> tree]
WitnessAppend(wit, cm) == [wit EXCEPT !.tree = Append(@, cm)]
WitnessRoot(wit) == wit.tree

RECURSIVE WitnessAppendAll(_, _)
WitnessAppendAll(wit, cms) ==
    IF cms = << >> THEN wit
    ELSE WitnessAppendAll(WitnessAppend(wit, Head(cms)), Tail(cms))

\* ------------------------------------------------------------------------
\* CWalletTx
\* ------------------------------------------------------------------------

\* SproutNoteData / SaplingNoteData are default-constructed without cached
\* nullifier, with no witnesses, witnessHeight -1 and not validated.
NewNoteData(nf) ==
    [nullifier |-> nf, witnesses |-> << >>, witnessHeight |-> -1,
     witnessRootValidated |-> FALSE]

isUnconfirmed(wtx) == wtx.status = "UNCONFIRMED"
isConfirmed(wtx) == wtx.status = "CONFIRMED"
isConflicted(wtx) == wtx.status = "CONFLICTED"
isAbandoned(wtx) == wtx.status = "ABANDONED"

\* A depth that takes no transaction for confirmed or conflicted.
GetDepthAlwaysZero(c, wtx) == 0

\* A depth that stays negative for a conflicted transaction whether or not
\* the conflicting block is in the active chain.
GetDepthConflictedForever(c, wtx) ==
    IF isUnconfirmed(wtx) \/ isAbandoned(wtx) THEN 0
    ELSE IF isConflicted(wtx) THEN -1
    ELSE getBlockDepth(c, wtx.hashBlock)

GetDepthInMainChain(c, wtx) ==
    IF isUnconfirmed(wtx) \/ isAbandoned(wtx) THEN 0
    ELSE getBlockDepth(c, wtx.hashBlock) * (IF isConflicted(wtx) THEN -1 ELSE 1)

InMempool(wtx) == wtx.fInMempool

NoteMap(wtx, kind) ==
    IF kind = "sapling" THEN wtx.mapSaplingNoteData ELSE wtx.mapSproutNoteData

\* ------------------------------------------------------------------------
\* SpendIndex queries
\* ------------------------------------------------------------------------

\* The spent test with mempool presence required of a depth-0 spender.
SpentInRangeMempool(c, wallet, range) ==
    \E i \in 1..Len(range) :
        /\ range[i] \in DOMAIN wallet
        /\ LET depth == GetDepthInMainChain(c, wallet[range[i]])
           IN  depth > 0 \/ (depth = 0 /\ ~isAbandoned(wallet[range[i]])
                                       /\ InMempool(wallet[range[i]]))

\* The body shared by IsSpent, IsSproutSpent and IsSaplingSpent: range is
\* the equal_range of the outpoint or nullifier in its multimap.
SpentInRange(c, wallet, range) ==
    \E i \in 1..Len(range) :
        /\ range[i] \in DOMAIN wallet
        /\ LET depth == GetDepthInMainChain(c, wallet[range[i]])
           IN  depth > 0 \/ (depth = 0 /\ ~isAbandoned(wallet[range[i]]))

IsSpent(c, wallet, spends, outpoint) ==
    SpentInRange(c, wallet, spends[outpoint])

IsSproutSpent(c, wallet, sproutNullifiers, nullifier) ==
    SpentInRange(c, wallet, sproutNullifiers[nullifier])

IsSaplingSpent(c, wallet, saplingNullifiers, nullifier) ==
    SpentInRange(c, wallet, saplingNullifiers[nullifier])

\* GetSproutSpendDepth / GetSaplingSpendDepth: the depth of the first
\* registered spender whose depth is not negative, 0 when there is none.
RECURSIVE SpendDepthInRange(_, _, _)
SpendDepthInRange(c, wallet, range) ==
    IF range = << >> THEN 0
    ELSE IF Head(range) \in DOMAIN wallet
            /\ GetDepthInMainChain(c, wallet[Head(range)]) >= 0
         THEN GetDepthInMainChain(c, wallet[Head(range)])
         ELSE SpendDepthInRange(c, wallet, Tail(range))

\* w is the wallet state [mapWallet, mapTxSpends, mapTxSproutNullifiers,
\* mapTxSaplingNullifiers, nOrderPosNext, wtxOrdered].
GetSpendDepth(kind, c, w, nullifier) ==
    IF kind = "sapling"
    THEN IF nullifier \in DOMAIN w.mapTxSaplingNullifiers
         THEN SpendDepthInRange(c, w.mapWallet, w.mapTxSaplingNullifiers[nullifier])
         ELSE 0
    ELSE IF nullifier \in DOMAIN w.mapTxSproutNullifiers
         THEN SpendDepthInRange(c, w.mapWallet, w.mapTxSproutNullifiers[nullifier])
         ELSE 0

\* ------------------------------------------------------------------------
\* The spend-graph walks of MarkConflicted and AbandonTransaction.
\* A walk state is [todo, done, wallet, taken, ok]: the two std::sets, the
\* mapWallet being rewritten, how often each id left the worklist, and
\* whether every assertion met so far held.
\* ------------------------------------------------------------------------

SetMin(S) == CHOOSE x \in S : \A y \in S : x <= y

SeqRange(q) == {q[i] : i \in 1..Len(q)}

\* A scan over mapTxSpends that finds no spender.
SpendersOfNone(spends, now) == {}

\* Wallet transactions registered as spending an output of tx `now`
\* (the lower_bound(COutPoint(now, 0)) scan over mapTxSpends).
SpendersOf(spends, now) == IF now \in DOMAIN spends THEN SeqRange(spends[now]) ELSE {}

\* The spenders a walk adds to its worklist: those not yet in `done`.
UnvisitedAll(spenders, done) == spenders

Unvisited(spenders, done) == spenders \ done

WalkStart(wallet, hashTx) ==
    [todo |-> {hashTx}, done |-> {}, wallet |-> wallet,
     taken |-> [t \in TxIds |-> 0], ok |-> TRUE]

Take(st, now) ==
    [st EXCEPT !.todo = @ \ {now}, !.done = @ \cup {now},
               !.taken[now] = Min(@ + 1, 2)]

\* One iteration of the while loop of MarkConflicted.
MarkConflictedStep(c, spends, hashBlock, st) ==
    LET now == SetMin(st.todo)
        s1 == Take(st, now)
    IN  IF now \notin DOMAIN st.wallet
        THEN [s1 EXCEPT !.ok = FALSE, !.todo = {}]
        ELSE LET wtx == st.wallet[now]
                 conflictconfirms == -getBlockDepth(c, hashBlock)
                 currentconfirm == GetDepthInMainChain(c, wtx)
             IN  IF conflictconfirms < currentconfirm
                 THEN [s1 EXCEPT
                         !.wallet[now] = [wtx EXCEPT !.nIndex = 0,
                                                     !.hashBlock = hashBlock,
                                                     !.status = "CONFLICTED"],
                         !.todo = @ \cup Unvisited(SpendersOf(spends, now), s1.done)]
                 ELSE s1

\* One iteration of the while loop of AbandonTransaction.
AbandonStep(c, spends, st) ==
    LET now == SetMin(st.todo)
        s1 == Take(st, now)
    IN  IF now \notin DOMAIN st.wallet
        THEN [s1 EXCEPT !.ok = FALSE, !.todo = {}]
        ELSE LET wtx == st.wallet[now]
                 currentconfirm == GetDepthInMainChain(c, wtx)
             IN  IF currentconfirm > 0
                 THEN [s1 EXCEPT !.ok = FALSE, !.todo = {}]
                 ELSE IF currentconfirm = 0 /\ ~isAbandoned(wtx)
                 THEN IF InMempool(wtx)
                      THEN [s1 EXCEPT !.ok = FALSE, !.todo = {}]
                      ELSE [s1 EXCEPT
                              !.wallet[now] = [wtx EXCEPT !.nIndex = 0,
                                                          !.hashBlock = NullHash,
                                                          !.status = "ABANDONED"],
                              !.todo = @ \cup Unvisited(SpendersOf(spends, now), s1.done)]
                 ELSE s1

RECURSIVE MarkConflictedLoop(_, _, _, _)
MarkConflictedLoop(c, spends, hashBlock, st) ==
    IF st.todo = {} THEN st
    ELSE MarkConflictedLoop(c, spends, hashBlock,
                            MarkConflictedStep(c, spends, hashBlock, st))

RECURSIVE AbandonLoop(_, _, _)
AbandonLoop(c, spends, st) ==
    IF st.todo = {} THEN st
    ELSE AbandonLoop(c, spends, AbandonStep(c, spends, st))

\* CWallet::MarkConflicted: the wallet state after the call.
MarkConflicted(c, w, hashBlock, hashTx) ==
    IF -getBlockDepth(c, hashBlock) >= 0 THEN w
    ELSE [w EXCEPT !.mapWallet =
            MarkConflictedLoop(c, w.mapTxSpends, hashBlock,
                               WalkStart(w.mapWallet, hashTx)).wallet]

\* CWallet::AbandonTransaction: [w, ret], ret "assert" when an assertion of
\* the walk failed (the process aborts with the marks made so far).
AbandonTransaction(c, w, hashTx) ==
    LET origtx == w.mapWallet[hashTx]
    IN  IF GetDepthInMainChain(c, origtx) # 0 \/ InMempool(origtx)
        THEN [w |-> w, ret |-> "false"]
        ELSE LET st == AbandonLoop(c, w.mapTxSpends, WalkStart(w.mapWallet, hashTx))
             IN  [w |-> [w EXCEPT !.mapWallet = st.wallet],
                  ret |-> IF st.ok THEN "true" ELSE "assert"]

\* ------------------------------------------------------------------------
\* AddToWallet and what it calls
\* ------------------------------------------------------------------------

\* AddToSpends: register every spend of the transaction (multimap insert
\* appends to the equal range).  No two transactions of the universe are
\* equivalent (IsEquivalentTo), so SyncMetaData copies nothing.
AddToSpends(w, wtxid) ==
    [w EXCEPT
       !.mapTxSpends =
           [o \in DOMAIN @ |-> IF o \in vin(wtxid) THEN Append(@[o], wtxid) ELSE @[o]],
       !.mapTxSproutNullifiers =
           [n \in DOMAIN @ |->
               IF n \in vJoinSplitNullifiers(wtxid) THEN Append(@[n], wtxid) ELSE @[n]],
       !.mapTxSaplingNullifiers =
           [n \in DOMAIN @ |->
               IF n \in vShieldedSpend(wtxid) THEN Append(@[n], wtxid) ELSE @[n]]]

\* Tolerated distance into the future of the latest wallet entry.
TimeTolerance == 300

\* wtxOrdered walked from the highest order position down, skipping the
\* transaction itself: the first entry whose time is tolerated.
RECURSIVE LatestEntry(_, _, _, _)
LatestEntry(wallet, ordered, self, latestTolerated) ==
    IF ordered = {} THEN 0
    ELSE LET top == CHOOSE e \in ordered : \A f \in ordered : f[1] <= e[1]
             pwtx == wallet[top[2]]
             nSmartTime == IF pwtx.nTimeSmart = 0 THEN pwtx.nTimeReceived
                           ELSE pwtx.nTimeSmart
         IN  IF top[2] # self /\ nSmartTime <= latestTolerated
             THEN nSmartTime
             ELSE LatestEntry(wallet, ordered \ {top}, self, latestTolerated)

ComputeTimeSmart(w, self, wtx) ==
    IF ~isUnconfirmed(wtx) /\ ~isAbandoned(wtx) /\ wtx.hashBlock # NullHash
    THEN LET latestEntry == LatestEntry(w.mapWallet, w.wtxOrdered, self,
                                        wtx.nTimeReceived + TimeTolerance)
             latestNow == Max(wtx.nTimeReceived, latestEntry)
         IN  Max(latestEntry, Min(BlockTime(wtx.hashBlock), latestNow))
    ELSE wtx.nTimeReceived

\* UpdatedNoteData leaves the stored map alone.
NoteDataUnchanged(incoming, stored) == DOMAIN incoming = {} \/ incoming = stored

\* tmp.at(nd.first) throws std::out_of_range: the incoming map differs from
\* the stored one and lacks a stored note.
MergeThrows(incoming, stored) ==
    /\ ~NoteDataUnchanged(incoming, stored)
    /\ DOMAIN stored \ DOMAIN incoming # {}

\* UpdatedNoteData taking the incoming note data as it comes.
MergeNoteDataIncoming(incoming, stored) ==
    IF DOMAIN incoming = {} THEN stored ELSE incoming

\* UpdatedNoteData for one of the two note maps: the merged map.
MergeNoteData(incoming, stored) ==
    IF NoteDataUnchanged(incoming, stored) \/ MergeThrows(incoming, stored) THEN stored
    ELSE [op \in DOMAIN incoming |->
            IF op \in DOMAIN stored
            THEN [incoming[op] EXCEPT
                    !.witnesses = IF Len(stored[op].witnesses) > 0
                                  THEN stored[op].witnesses ELSE @,
                    !.witnessHeight = stored[op].witnessHeight]
            ELSE incoming[op]]

\* AddToWallet when mapWallet.insert inserted the transaction.
InsertNew(c, w, now, hash, wtxIn) ==
    LET w1 == [w EXCEPT !.nOrderPosNext = @ + 1,
                        !.wtxOrdered = @ \cup {<<w.nOrderPosNext, hash>>}]
        wtx1 == [wtxIn EXCEPT !.nTimeReceived = now,
                              !.nOrderPos = w.nOrderPosNext]
        w2 == [w1 EXCEPT !.mapWallet = (hash :> wtx1) @@ @]
        wtx2 == [wtx1 EXCEPT !.nTimeSmart = ComputeTimeSmart(w2, hash, wtx1)]
        w3 == [w2 EXCEPT !.mapWallet[hash] = wtx2]
    IN  [w |-> AddToSpends(w3, hash), fInsertedNew |-> TRUE,
         fUpdated |-> FALSE, wrote |-> TRUE, ok |-> TRUE]

\* AddToWallet when mapWallet.insert found the transaction stored.  ok is
\* false when an assertion failed or UpdatedNoteData threw, which leaves
\* the rest of the update undone.
UpdateExisting(c, w, now, hash, wtxIn) ==
    LET wtx == w.mapWallet[hash]
        statusDiffers == wtxIn.status # wtx.status
        asserted == statusDiffers \/ (wtx.nIndex = wtxIn.nIndex
                                      /\ wtx.hashBlock = wtxIn.hashBlock)
        sproutThrows == MergeThrows(wtxIn.mapSproutNoteData, wtx.mapSproutNoteData)
        saplingThrows == MergeThrows(wtxIn.mapSaplingNoteData, wtx.mapSaplingNoteData)
        threw == sproutThrows \/ saplingThrows
        sprout == MergeNoteData(wtxIn.mapSproutNoteData, wtx.mapSproutNoteData)
        sapling == IF sproutThrows THEN wtx.mapSaplingNoteData
                   ELSE MergeNoteData(wtxIn.mapSaplingNoteData, wtx.mapSaplingNoteData)
        notesUpdated ==
            \/ ~NoteDataUnchanged(wtxIn.mapSproutNoteData, wtx.mapSproutNoteData)
            \/ ~NoteDataUnchanged(wtxIn.mapSaplingNoteData, wtx.mapSaplingNoteData)
        fromMe == ~threw /\ wtxIn.fFromMe /\ wtxIn.fFromMe # wtx.fFromMe
        wtx1 == [wtx EXCEPT
                   !.status = wtxIn.status,
                   !.nIndex = IF statusDiffers THEN wtxIn.nIndex ELSE @,
                   !.hashBlock = IF statusDiffers THEN wtxIn.hashBlock ELSE @,
                   !.mapSproutNoteData = sprout,
                   !.mapSaplingNoteData = sapling,
                   !.fFromMe = IF fromMe THEN TRUE ELSE @]
        fUpdated == statusDiffers \/ notesUpdated \/ fromMe
    IN  [w |-> IF asserted THEN [w EXCEPT !.mapWallet[hash] = wtx1] ELSE w,
         fInsertedNew |-> FALSE, fUpdated |-> fUpdated,
         wrote |-> fUpdated /\ asserted /\ ~threw,
         ok |-> asserted /\ ~threw]

\* AddToWallet taking every transaction for a new one.
AddToWalletAsNew(c, w, now, hash, wtxIn) == InsertNew(c, w, now, hash, wtxIn)

\* CWallet::AddToWallet(wtxIn): [w, fInsertedNew, fUpdated, wrote, ok].
\* wrote: batch.WriteTx was called; ok: the assertions held.
AddToWallet(c, w, now, hash, wtxIn) ==
    IF hash \notin DOMAIN w.mapWallet
    THEN InsertNew(c, w, now, hash, wtxIn)
    ELSE UpdateExisting(c, w, now, hash, wtxIn)

\* The Sprout note tx 4 pays back to the wallet as change, for a wallet that
\* holds the keys of the change address.
MyChangeSproutOps(t) == IF haveChangeKeys /\ t = 4 THEN {<<4, 0>>} ELSE {}

\* FindMySproutNotes / FindMySaplingNotes.  A Sprout nullifier is computed
\* at once (the spending key is held); a Sapling nullifier needs the note
\* position and is left out.
FindMySproutNotes(keys, t) ==
    [op \in (IF keys THEN MySproutOps(t) \cup MyChangeSproutOps(t) ELSE {}) |->
        NewNoteData(SproutNf(op))]

FindMySaplingNotes(keys, t) ==
    [op \in (IF keys THEN MySaplingOps(t) ELSE {}) |-> NewNoteData(NoNullifier)]

\* Every transaction of the universe pays an output to the wallet.
IsMine(t) == t \in TxIds

\* The CWalletTx built by AddToWalletIfInvolvingMe / CommitTransaction.
NewWalletTx(keys, t, status, block_hash, posInBlock, fromMe) ==
    [status |-> status, hashBlock |-> block_hash, nIndex |-> posInBlock,
     fInMempool |-> FALSE, fFromMe |-> fromMe,
     nOrderPos |-> -1, nTimeReceived |-> 0, nTimeSmart |-> 0,
     mapSproutNoteData |-> FindMySproutNotes(keys, t),
     mapSaplingNoteData |-> FindMySaplingNotes(keys, t)]

\* MarkConflicted for each wallet transaction in `range` other than t.
RECURSIVE MarkConflictedRange(_, _, _, _, _)
MarkConflictedRange(c, w, block_hash, range, t) ==
    IF range = << >> THEN w
    ELSE MarkConflictedRange(c,
            IF Head(range) # t THEN MarkConflicted(c, w, block_hash, Head(range)) ELSE w,
            block_hash, Tail(range), t)

RECURSIVE MarkConflictsOfInputs(_, _, _, _, _)
MarkConflictsOfInputs(c, w, block_hash, ins, t) ==
    IF ins = {} THEN w
    ELSE LET o == SetMin(ins)
         IN  MarkConflictsOfInputs(c,
                MarkConflictedRange(c, w, block_hash, w.mapTxSpends[o], t),
                block_hash, ins \ {o}, t)

\* CWallet::AddToWalletIfInvolvingMe with fUpdate = true, as SyncTransaction
\* calls it: the result of AddToWallet on the wallet after the conflicts of
\* a block transaction were marked.
AddToWalletIfInvolvingMe(c, w, now, keys, t, status, block_hash, posInBlock) ==
    LET w1 == IF block_hash # NullHash
              THEN MarkConflictsOfInputs(c, w, block_hash, vin(t), t)
              ELSE w
    IN  IF t \in DOMAIN w1.mapWallet \/ IsMine(t)
        THEN AddToWallet(c, w1, now, t, NewWalletTx(keys, t, status, block_hash, posInBlock, FALSE))
        ELSE [w |-> w1, fInsertedNew |-> FALSE, fUpdated |-> FALSE,
              wrote |-> FALSE, ok |-> TRUE]

\* MarkConflicted(prevtx.hashBlock, hash) for each input of the loaded
\* transaction whose funding transaction is held and Conflicted.
RECURSIVE MarkConflictedByParents(_, _, _, _)
MarkConflictedByParents(c, w, ins, hash) ==
    IF ins = {} THEN w
    ELSE LET o == SetMin(ins)
             w1 == IF o \in DOMAIN w.mapWallet /\ isConflicted(w.mapWallet[o])
                   THEN MarkConflicted(c, w, w.mapWallet[o].hashBlock, hash)
                   ELSE w
         IN  MarkConflictedByParents(c, w1, ins \ {o}, hash)

\* CWallet::LoadToWallet(wtxIn): [w, inserted].  A record whose block is
\* not in the active chain is loaded as Unconfirmed; emplace keeps a
\* stored transaction; AddToSpends runs whether or not emplace inserted.
LoadToWallet(c, w, hash, wtxIn) ==
    LET reorged == wtxIn.hashBlock # NullHash /\ ~InActiveChain(c, wtxIn.hashBlock)
        wtx == IF reorged
               THEN [wtxIn EXCEPT !.status = "UNCONFIRMED", !.hashBlock = NullHash,
                                  !.nIndex = 0]
               ELSE wtxIn
        inserted == hash \notin DOMAIN w.mapWallet
        w1 == IF inserted
              THEN [w EXCEPT !.mapWallet = (hash :> wtx) @@ @,
                             !.wtxOrdered = @ \cup {<<wtx.nOrderPos, hash>>}]
              ELSE w
        w2 == AddToSpends(w1, hash)
    IN  [w |-> MarkConflictedByParents(c, w2, vin(hash), hash), inserted |-> inserted]

\* ------------------------------------------------------------------------
\* Witness cache
\* ------------------------------------------------------------------------

ClearSingleNoteWitnessCache(nd) ==
    [nd EXCEPT !.witnesses = << >>, !.witnessHeight = -1,
               !.witnessRootValidated = FALSE]

\* The rebuild of a witness without the nullifier being recomputed after it.
UpdateNullifierNever(kind, op, nd) == nd

\* UpdateSproutNullifierNoteMapWithTx / UpdateSaplingNullifierNoteMapWithTx
\* for one note.  The Sprout variant clears the nullifier of a local copy
\* only, so a note without witnesses keeps the nullifier it has.
UpdateNullifierWithTx(kind, op, nd) ==
    IF Len(nd.witnesses) = 0
    THEN IF kind = "sapling" THEN [nd EXCEPT !.nullifier = NoNullifier] ELSE nd
    ELSE IF kind = "sapling"
         THEN [nd EXCEPT !.nullifier = SaplingNf(op, Head(nd.witnesses).position)]
         ELSE [nd EXCEPT !.nullifier = SproutNf(op)]

\* SproutWitnessMinimumHeight / SaplingWitnessMinimumHeight
WitnessMinimumHeight(kind, c, w, nullifier, nWitnessHeight, nMinimumHeight) ==
    IF GetSpendDepth(kind, c, w, nullifier) <= WITNESS_CACHE_SIZE
    THEN Min(nWitnessHeight, nMinimumHeight)
    ELSE nMinimumHeight

\* The loop of the rebuild over the commitments of the note's block:
\* [tree, witnesses] after the commitments cms.
RECURSIVE RebuildOver(_, _, _, _)
RebuildOver(cms, op, tree, witnesses) ==
    IF cms = << >> THEN [tree |-> tree, witnesses |-> witnesses]
    ELSE LET cm == Head(cms)
         IN  IF Len(witnesses) > 0
             THEN RebuildOver(Tail(cms), op, tree,
                              <<WitnessAppend(Head(witnesses), cm)>> \o Tail(witnesses))
             ELSE LET tree1 == Append(tree, cm)
                  IN  RebuildOver(Tail(cms), op, tree1,
                                  IF cm = op THEN <<TreeWitness(tree1)>> ELSE witnesses)

\* VerifyAndSetInitialWitness for one note of a transaction of depth > 0
\* confirmed in the block at height wtxHeight: [nd, min], the note after
\* the call and nMinimumHeight after it.
VerifyNote(kind, c, w, wtxHeight, op, ndIn, pindexHeight, witnessOnly, nMinimumHeight) ==
    LET nd == IF ndIn.nullifier = NoNullifier
              THEN ClearSingleNoteWitnessCache(ndIn) ELSE ndIn
        keep == [nd |-> nd,
                 min |-> WitnessMinimumHeight(kind, c, w, nd.nullifier,
                                              nd.witnessHeight, nMinimumHeight)]
        blk == c[wtxHeight]
        built == RebuildOver(Flatten([i \in 1..Len(BlockVtx(blk)) |->
                                         BlockCommitments(kind, BlockVtx(blk)[i])]),
                             op, BlockRoot(kind, c, wtxHeight - 1), << >>)
        nd1 == [ClearSingleNoteWitnessCache(nd) EXCEPT
                   !.witnesses = built.witnesses, !.witnessHeight = wtxHeight]
        nd2 == UpdateNullifierWithTx(kind, op, nd1)
        rebuilt == [nd |-> nd2,
                    min |-> WitnessMinimumHeight(kind, c, w, nd2.nullifier,
                                                 nd2.witnessHeight, nMinimumHeight)]
    IN  IF Len(nd.witnesses) > 0 /\ nd.witnessHeight > 0
        THEN IF nd.witnessRootValidated /\ witnessOnly
             THEN [nd |-> nd, min |-> nMinimumHeight]
             ELSE IF nd.witnessRootValidated THEN keep
             ELSE IF nd.witnessHeight > pindexHeight - 1 THEN keep
             ELSE IF WitnessRoot(Head(nd.witnesses)) = BlockRoot(kind, c, nd.witnessHeight)
             THEN [keep EXCEPT !.nd.witnessRootValidated = TRUE]
             ELSE rebuilt
        ELSE rebuilt

\* The notes of one kind of one wallet transaction, in key order.
RECURSIVE VerifyNotes(_, _, _, _, _, _, _, _, _)
VerifyNotes(kind, c, w, wtxHeight, ops, notes, pindexHeight, witnessOnly, nMinimumHeight) ==
    IF ops = {} THEN [notes |-> notes, min |-> nMinimumHeight]
    ELSE LET op == CHOOSE o \in ops : \A o2 \in ops : o[2] <= o2[2]
             r == VerifyNote(kind, c, w, wtxHeight, op, notes[op], pindexHeight,
                             witnessOnly, nMinimumHeight)
         IN  VerifyNotes(kind, c, w, wtxHeight, ops \ {op},
                         [notes EXCEPT ![op] = r.nd], pindexHeight, witnessOnly, r.min)

\* CWallet::VerifyAndSetInitialWitness: [wallet, min], mapWallet after the
\* call and the height returned.  txs are the wallet transactions left.
RECURSIVE VerifyAndSetInitialWitnessFrom(_, _, _, _, _, _, _)
VerifyAndSetInitialWitnessFrom(c, w, txs, wallet, pindexHeight, witnessOnly, nMinimumHeight) ==
    IF txs = {} THEN [wallet |-> wallet, min |-> nMinimumHeight]
    ELSE LET t == SetMin(txs)
             wtx == wallet[t]
         IN  IF GetDepthInMainChain(c, wtx) > 0
             THEN LET h == Len(wtx.hashBlock)
                      sp == VerifyNotes("sprout", c, w, h, DOMAIN wtx.mapSproutNoteData,
                                        wtx.mapSproutNoteData, pindexHeight, witnessOnly,
                                        nMinimumHeight)
                      sa == VerifyNotes("sapling", c, w, h, DOMAIN wtx.mapSaplingNoteData,
                                        wtx.mapSaplingNoteData, pindexHeight, witnessOnly,
                                        sp.min)
                  IN  VerifyAndSetInitialWitnessFrom(c, w, txs \ {t},
                         [wallet EXCEPT ![t].mapSproutNoteData = sp.notes,
                                        ![t].mapSaplingNoteData = sa.notes],
                         pindexHeight, witnessOnly, sa.min)
             ELSE VerifyAndSetInitialWitnessFrom(c, w, txs \ {t}, wallet, pindexHeight,
                                                 witnessOnly, nMinimumHeight)

VerifyAndSetInitialWitness(c, w, pindexHeight, witnessOnly) ==
    VerifyAndSetInitialWitnessFrom(c, w, DOMAIN w.mapWallet, w.mapWallet,
                                   pindexHeight, witnessOnly, pindexHeight)

\* BuildWitnessCache without its trimming loop.
TrimWitnessesNever(witnesses) == witnesses

\* The trimming loop of BuildWitnessCache: pop_back while the buffer is
\* longer than the bound.
TrimWitnesses(witnesses) ==
    IF Len(witnesses) > WITNESS_CACHE_SIZE
    THEN SubSeq(witnesses, 1, WITNESS_CACHE_SIZE) ELSE witnesses

\* BuildWitnessCache, the body for one note and the block at height h.
ExtendNote(kind, c, w, nd, h) ==
    IF /\ nd.nullifier # NoNullifier
       /\ nd.witnessHeight = h - 1
       /\ GetSpendDepth(kind, c, w, nd.nullifier) <= WITNESS_CACHE_SIZE
    THEN LET pushed == TrimWitnesses(<<Head(nd.witnesses)>> \o nd.witnesses)
             cms == Flatten([i \in 1..Len(BlockVtx(c[h])) |->
                                BlockCommitments(kind, BlockVtx(c[h])[i])])
         IN  [nd EXCEPT !.witnesses = <<WitnessAppendAll(Head(pushed), cms)>> \o Tail(pushed),
                        !.witnessHeight = h]
    ELSE nd

\* BuildWitnessCache, one iteration of the while loop (block at height h).
ExtendWallet(c, w, wallet, h) ==
    [t \in DOMAIN wallet |->
        IF GetDepthInMainChain(c, wallet[t]) > 0
        THEN [wallet[t] EXCEPT
                !.mapSproutNoteData =
                    [op \in DOMAIN @ |-> ExtendNote("sprout", c, w, @[op], h)],
                !.mapSaplingNoteData =
                    [op \in DOMAIN @ |-> ExtendNote("sapling", c, w, @[op], h)]]
        ELSE wallet[t]]

\* BuildWitnessCache leaving its loop after the first block.
BuildLoopOnce(c, w, wallet, h, pindexHeight) == ExtendWallet(c, w, wallet, h)

RECURSIVE BuildLoop(_, _, _, _, _)
BuildLoop(c, w, wallet, h, pindexHeight) ==
    IF h > Len(c) THEN wallet
    ELSE LET wallet1 == ExtendWallet(c, w, wallet, h)
         IN  IF h = pindexHeight THEN wallet1
             ELSE BuildLoop(c, w, wallet1, h + 1, pindexHeight)

\* CWallet::BuildWitnessCache(pindex, witnessOnly): the wallet state after.
BuildWitnessCache(c, w, pindexHeight, witnessOnly) ==
    LET v == VerifyAndSetInitialWitness(c, w, pindexHeight, witnessOnly)
        startHeight == v.min + 1
    IN  IF startHeight > pindexHeight \/ witnessOnly
        THEN [w EXCEPT !.mapWallet = v.wallet]
        ELSE [w EXCEPT !.mapWallet = BuildLoop(c, w, v.wallet, startHeight, pindexHeight)]

\* DecrementNoteWitnesses popping the newest witness of a note even when it
\* is the last one.
DecrementNoteToEmpty(kind, c, w, nd, pindexHeight) ==
    IF /\ nd.nullifier # NoNullifier
       /\ GetSpendDepth(kind, c, w, nd.nullifier) <= WITNESS_CACHE_SIZE
       /\ nd.witnessHeight <= pindexHeight
       /\ Len(nd.witnesses) > 0
    THEN [nd EXCEPT !.witnesses = Tail(@), !.witnessHeight = pindexHeight - 1]
    ELSE nd

\* DecrementNoteWitnesses popping at the back of the buffer, where the
\* oldest witness is, and not at the front.
DecrementNoteOldest(kind, c, w, nd, pindexHeight) ==
    IF /\ nd.nullifier # NoNullifier
       /\ GetSpendDepth(kind, c, w, nd.nullifier) <= WITNESS_CACHE_SIZE
       /\ nd.witnessHeight <= pindexHeight
       /\ Len(nd.witnesses) > 1
    THEN [nd EXCEPT !.witnesses = SubSeq(@, 1, Len(@) - 1),
                    !.witnessHeight = pindexHeight - 1]
    ELSE nd

\* DecrementNoteWitnesses, the body for one note.
DecrementNote(kind, c, w, nd, pindexHeight) ==
    IF /\ nd.nullifier # NoNullifier
       /\ GetSpendDepth(kind, c, w, nd.nullifier) <= WITNESS_CACHE_SIZE
       /\ nd.witnessHeight <= pindexHeight
       /\ Len(nd.witnesses) > 1
    THEN [nd EXCEPT !.witnesses = Tail(@), !.witnessHeight = pindexHeight - 1]
    ELSE nd

\* CWallet::DecrementNoteWitnesses(pindex)
DecrementNoteWitnesses(c, w, pindexHeight) ==
    [w EXCEPT !.mapWallet =
        [t \in DOMAIN @ |->
            [@[t] EXCEPT
               !.mapSproutNoteData =
                   [op \in DOMAIN @ |-> DecrementNote("sprout", c, w, @[op], pindexHeight)],
               !.mapSaplingNoteData =
                   [op \in DOMAIN @ |-> DecrementNote("sapling", c, w, @[op], pindexHeight)]]]]

\* CWallet::UpdateNullifierNoteMapForBlock(block)
UpdateNullifierNoteMapForBlock(w, b) ==
    [w EXCEPT !.mapWallet =
        [t \in DOMAIN @ |->
            IF t \in SeqRange(BlockVtx(b))
            THEN [@[t] EXCEPT
                    !.mapSproutNoteData =
                        [op \in DOMAIN @ |-> UpdateNullifierWithTx("sprout", op, @[op])],
                    !.mapSaplingNoteData =
                        [op \in DOMAIN @ |-> UpdateNullifierWithTx("sapling", op, @[op])]]
            ELSE @[t]]]

\* CWallet::ChainTip(block, pindex, added).  witnessOnly stands for the
\* node being in initial block download or the block being old.
ChainTip(c, w, b, pindexHeight, added, witnessOnly) ==
    IF added
    THEN BuildWitnessCache(c, w, pindexHeight, witnessOnly)
    ELSE UpdateNullifierNoteMapForBlock(DecrementNoteWitnesses(c, w, pindexHeight), b)

\* ------------------------------------------------------------------------
\* What the node can do (the environment of the wallet)
\* ------------------------------------------------------------------------

InChain(c, t) == \E h \in 1..Len(c) : c[h] = t

\* Position of a commitment in a tree, -1 when the tree does not hold it.
PositionIn(tree, cm) ==
    IF \E i \in 1..Len(tree) : tree[i] = cm
    THEN (CHOOSE i \in 1..Len(tree) : tree[i] = cm) - 1
    ELSE -1

\* A Sapling nullifier is spendable on chain c when the note it belongs to
\* is committed in c at the position the nullifier was derived from.
SaplingNfValid(c, nf) ==
    PositionIn(hashSaplingRoot(c, Len(c)), nf[2]) = nf[3]

SproutNfValid(c, nf) ==
    PositionIn(hashSproutRoot(c, Len(c)), nf[2]) >= 0

\* Two transactions conflict when they spend the same output or nullifier.
Conflicting(t, u) ==
    /\ t # u
    /\ \/ vin(t) \cap vin(u) # {}
       \/ vShieldedSpend(t) \cap vShieldedSpend(u) # {}
       \/ vJoinSplitNullifiers(t) \cap vJoinSplitNullifiers(u) # {}

\* Transactions an input of t comes from (transparent parents and the
\* transactions that created the notes it spends).
Parents(t) ==
    (vin(t) \ {0}) \cup {nf[2][1] : nf \in vShieldedSpend(t) \cup vJoinSplitNullifiers(t)}

\* Consensus: block b can extend chain c.
CanConnect(c, b) ==
    \/ b = 0
    \/ /\ b \in TxIds
       /\ ~InChain(c, b)
       /\ \A p \in Parents(b) : InChain(c, p)
       /\ \A u \in TxIds : InChain(c, u) => ~Conflicting(b, u)
       /\ \A nf \in vShieldedSpend(b) : SaplingNfValid(c, nf)
       /\ \A nf \in vJoinSplitNullifiers(b) : SproutNfValid(c, nf)

RECURSIVE Descendants(_)
Descendants(S) ==
    LET next == S \cup {t \in TxIds : Parents(t) \cap S # {}}
    IN  IF next = S THEN S ELSE Descendants(next)

\* Transactions the mempool drops when block b connects because they, or
\* an ancestor of theirs, conflict with it.
ConflictedByBlock(b) ==
    IF b = 0 THEN {} ELSE Descendants({u \in TxIds : Conflicting(b, u)})

\* Mempool policy: t can enter the mempool the wallet mirrors.
CanEnterMempool(c, wallet, t) ==
    /\ ~InChain(c, t)
    /\ \A p \in vin(t) \ {0} :
          InChain(c, p) \/ (p \in DOMAIN wallet /\ wallet[p].fInMempool)
    /\ \A u \in TxIds :
          Conflicting(t, u) =>
             /\ ~InChain(c, u)
             /\ ~(u \in DOMAIN wallet /\ wallet[u].fInMempool)
    /\ \A nf \in vShieldedSpend(t) : SaplingNfValid(c, nf)
    /\ \A nf \in vJoinSplitNullifiers(t) : SproutNfValid(c, nf)

\* ------------------------------------------------------------------------
\* Handlers
\* ------------------------------------------------------------------------

W == [mapWallet |-> mapWallet, mapTxSpends |-> mapTxSpends,
      mapTxSproutNullifiers |-> mapTxSproutNullifiers,
      mapTxSaplingNullifiers |-> mapTxSaplingNullifiers,
      nOrderPosNext |-> nOrderPosNext, wtxOrdered |-> wtxOrdered]

SetW(w) ==
    /\ mapWallet' = w.mapWallet
    /\ mapTxSpends' = w.mapTxSpends
    /\ mapTxSproutNullifiers' = w.mapTxSproutNullifiers
    /\ mapTxSaplingNullifiers' = w.mapTxSaplingNullifiers
    /\ nOrderPosNext' = w.nOrderPosNext
    /\ wtxOrdered' = w.wtxOrdered

\* TransactionRemovedFromMempool for each transaction of S.
RemovedFromMempool(w, S) ==
    [w EXCEPT !.mapWallet =
        [t \in DOMAIN @ |-> IF t \in S THEN [@[t] EXCEPT !.fInMempool = FALSE] ELSE @[t]]]

\* CWallet::BlockConnected(block, vtxConflicted) on chain c, whose tip is
\* the block: [w, ok].
BlockConnected(c, w, now, keys, b) ==
    LET r == IF b = 0
             THEN [w |-> w, ok |-> TRUE]
             ELSE AddToWalletIfInvolvingMe(c, w, now, keys, b, "CONFIRMED", HashAt(c, Len(c)), 0)
    IN  [w |-> RemovedFromMempool(r.w, SeqRange(BlockVtx(b)) \cup ConflictedByBlock(b)),
         ok |-> r.ok]

\* CWallet::BlockDisconnected(block) on chain c, which no longer holds it.
BlockDisconnected(c, w, now, keys, b) ==
    IF b = 0
    THEN [w |-> w, ok |-> TRUE]
    ELSE LET r == AddToWalletIfInvolvingMe(c, w, now, keys, b, "UNCONFIRMED", NullHash, 0)
         IN  [w |-> r.w, ok |-> r.ok]

\* What CommitTransaction does when the transaction could not be broadcast.
CommitNotBroadcast(c, w, t, forceError) ==
    IF forceError THEN AbandonTransaction(c, w, t).w ELSE w

\* CommitTransaction from AddToWallet to the call of broadcastTransaction
\* in SubmitMemoryPoolAndRelay, or to the return when nothing is
\* broadcast: [w, at, ok].
CommitTransactionAdd(c, w, now, keys, t, forceError, fBroadcastTransactions) ==
    LET r == AddToWallet(c, w, now, t, NewWalletTx(keys, t, "UNCONFIRMED", NullHash, 0, TRUE))
        wtx == r.w.mapWallet[t]
    IN  IF ~r.ok THEN [w |-> r.w, at |-> "mutated", ok |-> FALSE]
        ELSE IF ~fBroadcastTransactions THEN [w |-> r.w, at |-> "mutated", ok |-> TRUE]
        ELSE IF isAbandoned(wtx) \/ GetDepthInMainChain(c, wtx) # 0
        THEN [w |-> CommitNotBroadcast(c, r.w, t, forceError), at |-> "mutated", ok |-> TRUE]
        ELSE [w |-> r.w, at |-> "broadcasting", ok |-> TRUE]

\* chain().broadcastTransaction returned ret: fInMempool |= ret, and the
\* rest of CommitTransaction.
CommitTransactionBroadcast(c, w, t, forceError, ret) ==
    IF ret
    THEN [w EXCEPT !.mapWallet[t].fInMempool = TRUE]
    ELSE CommitNotBroadcast(c, w, t, forceError)

\* The value of a one-element set.
TheOnly(S) == CHOOSE x \in S : TRUE

\* CommitTransaction after AddToWallet left r: the broadcast, if any.
CommitTransactionRest(c, r, t, forceError, accept) ==
    IF r.at = "broadcasting"
    THEN [w |-> CommitTransactionBroadcast(c, r.w, t, forceError,
                    accept /\ CanEnterMempool(c, r.w.mapWallet, t)),
          ok |-> r.ok]
    ELSE [w |-> r.w, ok |-> r.ok]

\* CWallet::CommitTransaction(tx, mapValue, orderForm, forceError) run in one
\* piece by a caller that holds cs_wallet; accept is what the mempool
\* answers when the transaction is submitted: [w, ok].
CommitTransactionNow(c, w, now, keys, t, forceError, fBroadcastTransactions, accept) ==
    TheOnly({CommitTransactionRest(c, r, t, forceError, accept) :
                r \in {CommitTransactionAdd(c, w, now, keys, t, forceError,
                                            fBroadcastTransactions)}})

\* ------------------------------------------------------------------------
\* The Sprout-to-Sapling migration.  The queue of asynchronous operations
\* maps an operation id to the operation: the height it targets and its
\* state (ready, executing, cancelled, success).  The heights of a
\* migration round are scaled down so that a round fits the chains explored:
\* the program starts the operation at height 495 of every 500 and sends at
\* height 499.
\* ------------------------------------------------------------------------

MigrationPeriod == 4
MigrationStart == 2
MigrationSend == 3

\* Most operations ever created, and longest pending list, explored.
MaxOperations == 2
MaxPending == 2

\* Consensus::Params::NetworkUpgradeActive(nHeight, UPGRADE_SAPLING)
NetworkUpgradeActive(mig, nHeight) == nHeight >= mig.nActivationHeight

\* AsyncRPCQueue::getOperationForId(id): whether the queue holds it.
getOperationForId(q, id) == id \in DOMAIN q

\* AsyncRPCOperation::cancel(): an operation that has not started is
\* cancelled, one that is executing or done is left as it is.
cancel(q, id) ==
    IF q[id].state = "ready" THEN [q EXCEPT ![id].state = "cancelled"] ELSE q

\* lastOperation = q->getOperationForId(saplingMigrationOperationId);
\* if (lastOperation != nullptr) lastOperation->cancel();
CancelLastOperation(mig) ==
    IF getOperationForId(mig.queue, mig.saplingMigrationOperationId)
    THEN cancel(mig.queue, mig.saplingMigrationOperationId)
    ELSE mig.queue

\* AsyncRPCQueue::addOperation(operation)
addOperation(q, id, operation) ==
    [i \in DOMAIN q \cup {id} |-> IF i = id THEN operation ELSE q[i]]

\* The loop of RunSaplingMigration over pendingSaplingMigrationTxs:
\* [w, committed, ok], committed being the calls of CommitTransaction made;
\* CommitNext is one iteration, after which a failed assertion ends the loop.
CommitNext(c, prev, now, keys, t, fBroadcastTransactions, accept) ==
    IF ~prev.ok THEN prev
    ELSE TheOnly({[w |-> r.w, committed |-> Append(prev.committed, t), ok |-> r.ok] :
                     r \in {CommitTransactionNow(c, prev.w, now, keys, t, FALSE,
                                                 fBroadcastTransactions, accept)}})

CommitEach(c, w, now, keys, txs, fBroadcastTransactions, accept) ==
    LET done[i \in 0 .. Len(txs)] ==
            IF i = 0 THEN [w |-> w, committed |-> << >>, ok |-> TRUE]
            ELSE CommitNext(c, done[i - 1], now, keys, txs[i], fBroadcastTransactions, accept)
    IN  done[Len(txs)]

\* RunSaplingMigration at the send height, the loop having left r.
MigrationSent(mig, r) ==
    [w |-> r.w,
     migration |-> [mig EXCEPT !.queue = CancelLastOperation(mig),
                               !.pendingSaplingMigrationTxs = IF r.ok THEN << >> ELSE @],
     committed |-> r.committed, ok |-> r.ok]

\* A migration that sends the pending transactions without clearing the list.
RunSaplingMigrationKeepPending(c, w, now, keys, mig, blockHeight, fBroadcastTransactions, accept) ==
    IF blockHeight % MigrationPeriod = MigrationSend
    THEN TheOnly({[w |-> r.w, migration |-> mig, committed |-> r.committed, ok |-> r.ok] :
                     r \in {CommitEach(c, w, now, keys, mig.pendingSaplingMigrationTxs,
                                       fBroadcastTransactions, accept)}})
    ELSE [w |-> w, migration |-> mig, committed |-> << >>, ok |-> TRUE]

\* CWallet::RunSaplingMigration(blockHeight): [w, migration, committed, ok].
RunSaplingMigration(c, w, now, keys, mig, blockHeight, fBroadcastTransactions, accept) ==
    IF ~NetworkUpgradeActive(mig, blockHeight) \/ ~mig.fSaplingMigrationEnabled
    THEN [w |-> w, migration |-> mig, committed |-> << >>, ok |-> TRUE]
    ELSE IF blockHeight % MigrationPeriod = MigrationStart
    THEN [w |-> w,
          migration |->
              [mig EXCEPT !.queue = addOperation(CancelLastOperation(mig),
                                        mig.nextOperationId,
                                        [targetHeight |-> blockHeight +
                                                          (MigrationPeriod - MigrationStart),
                                         state |-> "ready"]),
                          !.pendingSaplingMigrationTxs = << >>,
                          !.saplingMigrationOperationId = mig.nextOperationId,
                          !.nextOperationId = @ + 1],
          committed |-> << >>, ok |-> TRUE]
    ELSE IF blockHeight % MigrationPeriod = MigrationSend
    THEN TheOnly({MigrationSent(mig, r) :
                     r \in {CommitEach(c, w, now, keys, mig.pendingSaplingMigrationTxs,
                                       fBroadcastTransactions, accept)}})
    ELSE [w |-> w, migration |-> mig, committed |-> << >>, ok |-> TRUE]

\* What ChainTip(added = true) runs after BuildWitnessCache: the migration,
\* unless the node is in initial block download or the block is old.
MigrationAtTip(c, w, now, keys, mig, witnessOnly, in) ==
    IF witnessOnly
    THEN [w |-> w, migration |-> mig, committed |-> << >>, ok |-> TRUE]
    ELSE RunSaplingMigration(c, w, now, keys, mig, Len(c), in[1], in[2])

\* Whether ChainTip for a block connected at blockHeight creates an operation.
CreatesOperation(mig, blockHeight, witnessOnly) ==
    /\ ~witnessOnly
    /\ mig.fSaplingMigrationEnabled
    /\ NetworkUpgradeActive(mig, blockHeight)
    /\ blockHeight % MigrationPeriod = MigrationStart

\* What the migration reads from outside the ledger: fBroadcastTransactions
\* and the answer of the mempool.
MigrationInputs(mig, witnessOnly) ==
    IF witnessOnly \/ ~mig.fSaplingMigrationEnabled
    THEN {<<FALSE, FALSE>>}
    ELSE BOOLEAN \X BOOLEAN

\* A failed assertion aborts the process: nothing runs after it.
Running == last.ok

\* The state after BlockConnected and ChainTip(added = true): ok tells
\* whether the assertions of BlockConnected held, m is what ChainTip left.
ConnectDone(c, ok, witnessOnly, m) ==
    /\ chain' = c
    /\ SetW(m.w)
    /\ migration' = m.migration
    /\ last' = [op |-> "ConnectBlock", tx |-> 0, ret |-> ~witnessOnly, ok |-> ok /\ m.ok,
                committed |-> m.committed]

\* The node connects block b: BlockConnected, then ChainTip(added = true).
ConnectBlock(b, witnessOnly, maxHeight) ==
    /\ Running
    /\ Len(chain) < maxHeight
    /\ b \in {0} \cup network
    /\ CanConnect(chain, b)
    /\ CreatesOperation(migration, Len(chain) + 1, witnessOnly) =>
          migration.nextOperationId <= MaxOperations
    /\ \E in \in MigrationInputs(migration, witnessOnly) :
       \E r \in {BlockConnected(Append(chain, b), W, nNow, haveKeys, b)} :
       \E w \in {ChainTip(Append(chain, b), r.w, b, Len(chain) + 1, TRUE, witnessOnly)} :
       \E m \in {MigrationAtTip(Append(chain, b), w, nNow, haveKeys, migration,
                                witnessOnly, in)} :
          ConnectDone(Append(chain, b), r.ok, witnessOnly, m)
    /\ UNCHANGED <<haveKeys, haveChangeKeys, unloading, scan, threads, network, nNow, walk, untouched>>

\* The node disconnects the tip: BlockDisconnected, then ChainTip(added = false).
DisconnectBlock ==
    /\ Running
    /\ Len(chain) > 0
    /\ LET b == chain[Len(chain)]
           c == SubSeq(chain, 1, Len(chain) - 1)
           r == BlockDisconnected(c, W, nNow, haveKeys, b)
       IN  /\ chain' = c
           /\ SetW(ChainTip(c, r.w, b, Len(chain), FALSE, FALSE))
           /\ last' = [op |-> "DisconnectBlock", tx |-> 0, ret |-> FALSE, ok |-> r.ok]
    /\ UNCHANGED <<haveKeys, haveChangeKeys, migration, unloading, scan, threads, network, nNow, walk, untouched>>

\* CWallet::TransactionAddedToMempool(ptx)
TransactionAddedToMempool(t) ==
    /\ Running
    /\ t \in network
    /\ CanEnterMempool(chain, mapWallet, t)
    /\ LET r == AddToWalletIfInvolvingMe(chain, W, nNow, haveKeys, t, "UNCONFIRMED", NullHash, 0)
       IN  /\ SetW([r.w EXCEPT !.mapWallet =
                      [u \in DOMAIN @ |->
                          IF u = t THEN [@[u] EXCEPT !.fInMempool = TRUE] ELSE @[u]]])
           /\ last' = [op |-> "TransactionAddedToMempool", tx |-> 0, ret |-> FALSE,
                       ok |-> r.ok]
    /\ UNCHANGED <<chain, haveKeys, haveChangeKeys, migration, unloading, scan, threads, network, nNow, walk, untouched>>

\* CWallet::TransactionRemovedFromMempool(ptx): the mempool dropped the
\* transaction (expiry, eviction, replacement, a reorganisation).
TransactionRemovedFromMempool(t) ==
    /\ Running
    /\ t \in DOMAIN mapWallet
    /\ mapWallet[t].fInMempool
    /\ SetW(RemovedFromMempool(W, {t}))
    /\ last' = [op |-> "TransactionRemovedFromMempool", tx |-> 0, ret |-> FALSE,
                ok |-> TRUE]
    /\ UNCHANGED <<chain, haveKeys, haveChangeKeys, migration, unloading, scan, threads, network, nNow, walk, untouched>>

\* The abandontransaction request for a wallet transaction.
Abandon(t) ==
    /\ Running
    /\ t \in DOMAIN mapWallet
    /\ LET r == AbandonTransaction(chain, W, t)
       IN  /\ SetW(r.w)
           /\ last' = [op |-> "AbandonTransaction", tx |-> t, ret |-> r.ret = "true",
                       ok |-> r.ret # "assert"]
    /\ UNCHANGED <<chain, haveKeys, haveChangeKeys, migration, unloading, scan, threads, network, nNow, walk, untouched>>

\* AddToWallet called again with a copy of the stored transaction.
AddToWalletAgain(t) ==
    /\ Running
    /\ t \in DOMAIN mapWallet
    /\ LET r == AddToWallet(chain, W, nNow, t, mapWallet[t])
       IN  /\ SetW(r.w)
           /\ last' = [op |-> "AddToWallet", tx |-> t, ret |-> r.wrote, ok |-> r.ok]
    /\ UNCHANGED <<chain, haveKeys, haveChangeKeys, migration, unloading, scan, threads, network, nNow, walk, untouched>>

\* The adjusted time moves on.
Tick ==
    /\ Running
    /\ nNow < MaxTime
    /\ nNow' = nNow + 1
    /\ last' = [op |-> "Tick", tx |-> 0, ret |-> FALSE, ok |-> TRUE]
    /\ UNCHANGED <<chain, mapWallet, mapTxSpends, mapTxSproutNullifiers,
                   mapTxSaplingNullifiers, nOrderPosNext, wtxOrdered, haveKeys, haveChangeKeys, migration, unloading,
                   scan, threads, network, walk, untouched>>

\* The empty ledger and wallet file.
EmptyLedger ==
    /\ chain = << >>
    /\ mapWallet = << >>
    /\ mapTxSpends = [o \in OutPoints |-> << >>]
    /\ mapTxSproutNullifiers = [n \in SproutNullifiers |-> << >>]
    /\ mapTxSaplingNullifiers = [n \in SaplingNullifiers |-> << >>]
    /\ nOrderPosNext = 0
    /\ wtxOrdered = {}
    /\ nNow = 0
    /\ walk = [kind |-> "none", todo |-> {}, done |-> {}, taken |-> [t \in TxIds |-> 0]]
    /\ database = EmptyDatabase
    /\ last = [op |-> "init", tx |-> 0, ret |-> FALSE, ok |-> TRUE]

\* The empty ledger of a wallet whose shielded keys, if any, are those of
\* its first address.
InitLedger ==
    /\ EmptyLedger
    /\ haveChangeKeys = FALSE
    /\ migration = NoMigration
    /\ unloading = NoUnloading

InitWallet == InitLedger /\ NoSpending

\* A wallet without shielded keys: the transaction and spend ledger.  The
\* network relays the funding transaction, the double spend of its output
\* and either a transparent or a shielded spender of the first spend.
Init ==
    /\ InitWallet
    /\ haveKeys = FALSE
    /\ network \in {{1, 2, 3, 5}, {1, 2, 3, 4}}

Next ==
    \/ \E b \in {0} \cup TxIds : ConnectBlock(b, TRUE, MaxHeight)
    \/ DisconnectBlock
    \/ \E t \in TxIds : TransactionAddedToMempool(t)
    \/ \E t \in TxIds : TransactionRemovedFromMempool(t)
    \/ \E t \in TxIds : Abandon(t)

Spec == Init /\ [][Next]_vars

\* A wallet holding the shielded keys, following the chain: the witness cache.
InitW ==
    /\ InitWallet
    /\ haveKeys = TRUE
    /\ network \in {{1, 3}, {1, 2, 4}}

NextW ==
    \/ \E b \in {0} \cup TxIds, witnessOnly \in BOOLEAN :
          ConnectBlock(b, witnessOnly, MaxWitnessHeight)
    \/ DisconnectBlock
    \/ \E t \in TxIds : TransactionAddedToMempool(t)

SpecW == InitW /\ [][NextW]_vars

\* A wallet holding the shielded keys whose transactions are handed to
\* AddToWallet a second time, while blocks, the mempool and the clock move.
InitAdd ==
    /\ InitWallet
    /\ haveKeys = TRUE
    /\ network = {1, 2}

NextAdd ==
    \/ \E b \in {0} \cup TxIds : ConnectBlock(b, FALSE, MaxHeight)
    \/ DisconnectBlock
    \/ \E t \in TxIds : TransactionAddedToMempool(t)
    \/ \E t \in TxIds : AddToWalletAgain(t)
    \/ Tick

SpecAdd == InitAdd /\ [][NextAdd]_vars

\* ------------------------------------------------------------------------
\* The wallet file and ChainStateFlushed
\* ------------------------------------------------------------------------

\* WalletBatch batch(*database): a handle on the file without a transaction.
WalletBatch(db) == [db |-> db, active |-> FALSE, shadow |-> db]

\* TxnBegin: from here on writes go to the transaction.
TxnBegin(b) == [b EXCEPT !.active = TRUE, !.shadow = b.db]

\* TxnAbort: the writes of the transaction are dropped.
TxnAbort(b) == [b EXCEPT !.active = FALSE, !.shadow = b.db]

\* TxnCommit: the writes of the transaction reach the file together, or,
\* when the commit fails, none does.
TxnCommit(b, ok) ==
    IF ok /\ b.active
    THEN [db |-> b.shadow, active |-> FALSE, shadow |-> b.shadow]
    ELSE TxnAbort(b)

\* A write goes to the transaction when one is active, to the file otherwise.
WriteTx(b, hash, wtx) ==
    LET rec == [wtx EXCEPT !.fInMempool = FALSE]
    IN  IF b.active THEN [b EXCEPT !.shadow.tx = (hash :> rec) @@ @]
        ELSE [b EXCEPT !.db.tx = (hash :> rec) @@ @]

WriteWitnessCacheSize(b, n) ==
    IF b.active THEN [b EXCEPT !.shadow.witnesscachesize = n]
    ELSE [b EXCEPT !.db.witnesscachesize = n]

WriteBestBlock(b, loc) ==
    IF b.active THEN [b EXCEPT !.shadow.bestblock = loc]
    ELSE [b EXCEPT !.db.bestblock = loc]

\* The witness-cache size the wallet holds.
nWitnessCacheSize == 0

\* Where a flush can fail: nowhere, in TxnBegin, in or under (an exception)
\* the WriteTx of a transaction, in WriteWitnessCacheSize, in WriteBestBlock,
\* in TxnCommit.
FlushFailures ==
    {[at |-> a, tx |-> 0] : a \in {"none", "begin", "witness", "bestblock", "commit"}}
    \cup {[at |-> a, tx |-> t] : a \in {"writetx", "throw"}, t \in TxIds}

\* The transactions ChainStateFlushed writes: those holding note data.
HasNoteData(wtx) ==
    ~(DOMAIN wtx.mapSproutNoteData = {} /\ DOMAIN wtx.mapSaplingNoteData = {})

\* The loop of ChainStateFlushed going on after a WriteTx that failed.
RECURSIVE WriteNoteTxsPastFailure(_, _, _, _)
WriteNoteTxsPastFailure(b, wallet, todo, fail) ==
    IF todo = {} THEN [b |-> b, ok |-> TRUE]
    ELSE LET hash == SetMin(todo)
             wtx == wallet[hash]
             failed == fail.at \in {"writetx", "throw"} /\ fail.tx = hash
         IN  IF ~HasNoteData(wtx) \/ failed
             THEN WriteNoteTxsPastFailure(b, wallet, todo \ {hash}, fail)
             ELSE WriteNoteTxsPastFailure(WriteTx(b, hash, wtx), wallet, todo \ {hash}, fail)

\* The loop of ChainStateFlushed over mapWallet: [b, ok], ok false when a
\* WriteTx failed or threw, which ends the loop.
RECURSIVE WriteNoteTxs(_, _, _, _)
WriteNoteTxs(b, wallet, todo, fail) ==
    IF todo = {} THEN [b |-> b, ok |-> TRUE]
    ELSE LET hash == SetMin(todo)
             wtx == wallet[hash]
         IN  IF ~HasNoteData(wtx) THEN WriteNoteTxs(b, wallet, todo \ {hash}, fail)
             ELSE IF fail.at \in {"writetx", "throw"} /\ fail.tx = hash
             THEN [b |-> b, ok |-> FALSE]
             ELSE WriteNoteTxs(WriteTx(b, hash, wtx), wallet, todo \ {hash}, fail)

\* CWallet::ChainStateFlushed(loc): [db, committed].
ChainStateFlushed(db, wallet, loc, fail) ==
    LET b0 == WalletBatch(db)
        b1 == TxnBegin(b0)
        r == WriteNoteTxs(b1, wallet, DOMAIN wallet, fail)
        b2 == WriteWitnessCacheSize(r.b, nWitnessCacheSize)
        b3 == WriteBestBlock(b2, loc)
    IN  IF fail.at = "begin" THEN [db |-> b0.db, committed |-> FALSE]
        ELSE IF ~r.ok THEN [db |-> TxnAbort(r.b).db, committed |-> FALSE]
        ELSE IF fail.at = "witness" THEN [db |-> TxnAbort(r.b).db, committed |-> FALSE]
        ELSE IF fail.at = "bestblock" THEN [db |-> TxnAbort(b2).db, committed |-> FALSE]
        ELSE [db |-> TxnCommit(b3, fail.at # "commit").db,
              committed |-> fail.at # "commit"]

\* Longest active chain explored by the flushing specification.
MaxFlushHeight == 2

\* The node flushed its chain state: ChainStateFlushed(locator of the tip).
Flush ==
    /\ Running
    /\ \E fail \in FlushFailures :
          /\ fail.tx # 0 => fail.tx \in DOMAIN mapWallet /\ HasNoteData(mapWallet[fail.tx])
          /\ LET r == ChainStateFlushed(database, mapWallet, chain, fail)
             IN  /\ database' = r.db
                 /\ last' = [op |-> "ChainStateFlushed", tx |-> fail.tx,
                             ret |-> r.committed, ok |-> TRUE]
    /\ UNCHANGED <<chain, mapWallet, mapTxSpends, mapTxSproutNullifiers,
                   mapTxSaplingNullifiers, nOrderPosNext, wtxOrdered, haveKeys, haveChangeKeys, migration, unloading,
                   scan, threads, network, nNow, walk, coins, setLockedCoins, keyPool, policy,
                   create>>

\* A wallet holding the shielded keys that follows the chain and is flushed
\* to its file, with failures of the file at every point.
InitFlush ==
    /\ InitWallet
    /\ haveKeys = TRUE
    /\ network = {1, 2}

NextFlush ==
    \/ \E b \in {0} \cup TxIds : ConnectBlock(b, FALSE, MaxFlushHeight)
    \/ DisconnectBlock
    \/ \E t \in TxIds : TransactionAddedToMempool(t)
    \/ Flush

SpecFlush == InitFlush /\ [][NextFlush]_vars

\* ------------------------------------------------------------------------
\* AddToWallet with a copy that carries other note data
\* ------------------------------------------------------------------------

\* The note data a copy of a stored transaction can carry: none, the data
\* FindMySproutNotes / FindMySaplingNotes just built (no witnesses yet),
\* the stored data without its witnesses, the stored data.
IncomingNoteData(fresh, stored) ==
    {<< >>, fresh, stored,
     [op \in DOMAIN stored |-> [stored[op] EXCEPT !.witnesses = << >>]]}

\* AddToWallet called with a copy of a stored transaction: same payload and
\* status, any of the note data above.
AddToWalletCopy(t) ==
    /\ Running
    /\ t \in DOMAIN mapWallet
    /\ \E sprout \in IncomingNoteData(FindMySproutNotes(haveKeys, t),
                                      mapWallet[t].mapSproutNoteData),
          sapling \in IncomingNoteData(FindMySaplingNotes(haveKeys, t),
                                       mapWallet[t].mapSaplingNoteData) :
          LET wtxIn == [mapWallet[t] EXCEPT !.mapSproutNoteData = sprout,
                                            !.mapSaplingNoteData = sapling]
              r == AddToWallet(chain, W, nNow, t, wtxIn)
          IN  /\ SetW(r.w)
              /\ last' = [op |-> "AddToWalletCopy", tx |-> t, ret |-> r.wrote,
                          ok |-> r.ok]
    /\ UNCHANGED <<chain, haveKeys, haveChangeKeys, migration, unloading, scan, threads, network, nNow, walk, untouched>>

\* A wallet holding the shielded keys that follows the chain while copies
\* of its transactions are handed to AddToWallet.
InitCopy ==
    /\ InitWallet
    /\ haveKeys = TRUE
    /\ network = {1, 2}

NextCopy ==
    \/ \E b \in {0} \cup TxIds : ConnectBlock(b, FALSE, MaxHeight)
    \/ DisconnectBlock
    \/ \E t \in TxIds : TransactionAddedToMempool(t)
    \/ \E t \in TxIds : AddToWalletCopy(t)

SpecCopy == InitCopy /\ [][NextCopy]_vars

\* ------------------------------------------------------------------------
\* Loading the wallet file
\* ------------------------------------------------------------------------

\* Most entries one spend key holds in the loading specification.
MaxRegistrations == 2

\* Block hashes a stored record can name.
DiskBlocks == {<<1>>, <<1, 2>>, <<1, 3>>}

\* The records of transaction t a wallet file can hold.
DiskRecords(keys, t) ==
    LET rec(status, h, pos) ==
            [NewWalletTx(keys, t, status, h, 0, FALSE) EXCEPT !.nOrderPos = pos]
    IN  {rec("UNCONFIRMED", NullHash, pos) : pos \in 0..1}
        \cup {rec("ABANDONED", NullHash, pos) : pos \in 0..1}
        \cup {rec("CONFIRMED", h, pos) :
                 h \in {g \in DiskBlocks : g[Len(g)] = t}, pos \in 0..1}
        \cup {rec("CONFLICTED", h, pos) :
                 h \in {g \in DiskBlocks : g[Len(g)] # t /\ t # 1}, pos \in 0..1}

\* A spend key of t has room for one more entry.
RoomToRegister(t) ==
    /\ \A o \in vin(t) : Len(mapTxSpends[o]) < MaxRegistrations
    /\ \A n \in vJoinSplitNullifiers(t) : Len(mapTxSproutNullifiers[n]) < MaxRegistrations
    /\ \A n \in vShieldedSpend(t) : Len(mapTxSaplingNullifiers[n]) < MaxRegistrations

\* The wallet database hands a stored transaction to LoadToWallet.
LoadTx(t) ==
    /\ Running
    /\ t \in network
    /\ RoomToRegister(t)
    /\ \E wtxIn \in DiskRecords(haveKeys, t) :
          LET r == LoadToWallet(chain, W, t, wtxIn)
          IN  /\ SetW(r.w)
              /\ last' = [op |-> "LoadToWallet", tx |-> t, ret |-> r.inserted, ok |-> TRUE]
    /\ UNCHANGED <<chain, haveKeys, haveChangeKeys, migration, unloading, scan, threads, network, nNow, walk, untouched>>

\* A wallet being loaded under a chain that stays as it is, and used:
\* transactions arrive from the mempool and are handed to AddToWallet again.
InitLoad ==
    /\ mapWallet = << >>
    /\ mapTxSpends = [o \in OutPoints |-> << >>]
    /\ mapTxSproutNullifiers = [n \in SproutNullifiers |-> << >>]
    /\ mapTxSaplingNullifiers = [n \in SaplingNullifiers |-> << >>]
    /\ nOrderPosNext = 0
    /\ wtxOrdered = {}
    /\ nNow = 0
    /\ walk = [kind |-> "none", todo |-> {}, done |-> {}, taken |-> [t \in TxIds |-> 0]]
    /\ database = EmptyDatabase
    /\ NoSpending
    /\ last = [op |-> "init", tx |-> 0, ret |-> FALSE, ok |-> TRUE]
    /\ chain \in {<< >>, <<1>>, <<1, 2>>, <<1, 3>>}
    /\ haveKeys = TRUE
    /\ haveChangeKeys = FALSE
    /\ migration = NoMigration
    /\ unloading = NoUnloading
    /\ network = {1, 2, 3}

NextLoad ==
    \/ \E t \in TxIds : LoadTx(t)
    \/ \E t \in TxIds : AddToWalletAgain(t)
    \/ \E t \in TxIds : TransactionAddedToMempool(t)

SpecLoad == InitLoad /\ [][NextLoad]_vars

\* ------------------------------------------------------------------------
\* Spending: fees, dust, sizes and the coins of the wallet
\* ------------------------------------------------------------------------

\* CFeeRate::GetFee: the rate is in satoshis per 1000 bytes, the fee of a
\* non-empty size at a positive rate is at least one satoshi.
GetFee(rate, nBytes) ==
    LET nFee == (rate * nBytes) \div 1000
    IN  IF nFee = 0 /\ nBytes # 0 /\ rate > 0 THEN 1 ELSE nFee

\* Serialized sizes: an output that pays to a key hash, an input that spends
\* one, and the transaction without inputs and outputs.
OutputSize == 34
InputSize == 148
TxOverhead == 10
TxNoInputsOverhead == 11

\* GetDustThreshold: the fee, at the given rate, of the output and of the
\* input that will spend it.  IsDust: the value is below the threshold.
GetDustThreshold(rate) == GetFee(rate, OutputSize + InputSize)

IsDust(nValue, rate) == nValue < GetDustThreshold(rate)

\* CalculateMaximumSignedTxSize of a transaction of wallet inputs.
TxSize(nIn, nOut) == TxOverhead + InputSize * nIn + OutputSize * nOut

\* GetMinimumFee / GetMinimumFeeRate: the wallet's fee rate applied to the
\* size (no fee estimation, no coin-control override).
GetMinimumFee(p, nBytes) == GetFee(p.feeRate, nBytes)

\* GetDiscardRate: the wallet's discard rate, never below the dust relay rate.
GetDiscardRate(p) == Max(p.discardRate, p.dustRelayFee)

\* The smallest change the fee loop keeps when it absorbs a fee increase.
MIN_FINAL_CHANGE == 500000

RECURSIVE SumValues(_, _)
SumValues(cs, S) ==
    IF S = {} THEN 0
    ELSE LET i == CHOOSE x \in S : TRUE
         IN  cs[i].nValue + SumValues(cs, S \ {i})

\* AvailableCoins as CreateTransaction calls it: the safe, unlocked, unspent
\* outputs of positive value, coinbase outputs only on request.
AvailableCoins(cs, locked, fIncludeCoinbase) ==
    {i \in DOMAIN cs :
        /\ cs[i].nDepth >= 0
        /\ cs[i].fCoinbase => fIncludeCoinbase
        /\ cs[i].nValue >= 1
        /\ i \notin locked
        /\ ~cs[i].fSpent}

\* Among coins that differ in nothing but their outpoint the selectors'
\* choice is arbitrary: a selection is described by the one that takes the
\* lowest outpoints first.
CanonicalSubsets(cs, pool) ==
    LET kinds == {cs[i] : i \in pool}
        class(k) == {i \in pool : cs[i] = k}
        lowest(k, n) == {i \in class(k) :
                            Cardinality({j \in class(k) : j < i}) < n}
        largest == CHOOSE n \in 0 .. Cardinality(pool) :
                       /\ \A k \in kinds : Cardinality(class(k)) <= n
                       /\ \/ kinds = {}
                          \/ \E k \in kinds : Cardinality(class(k)) = n
        counts == {c \in [kinds -> 0 .. largest] :
                      \A k \in kinds : c[k] <= Cardinality(class(k))}
    IN  {UNION {lowest(k, c[k]) : k \in kinds} : c \in counts}

\* ------------------------------------------------------------------------
\* Coin selection
\* ------------------------------------------------------------------------

\* The largest count of ancestors the integers of the model hold: it stands
\* for std::numeric_limits<uint64_t>::max().
UnlimitedAncestors == 2147483647

\* CoinEligibilityFilter(conf_mine, conf_theirs, max_ancestors) and
\* CoinEligibilityFilter(conf_mine, conf_theirs, max_ancestors,
\* max_descendants).
EligibilityFilter3(conf_mine, conf_theirs, max_ancestors) ==
    [conf_mine |-> conf_mine, conf_theirs |-> conf_theirs,
     max_ancestors |-> max_ancestors, max_descendants |-> max_ancestors]

EligibilityFilter4(conf_mine, conf_theirs, max_ancestors, max_descendants) ==
    [conf_mine |-> conf_mine, conf_theirs |-> conf_theirs,
     max_ancestors |-> max_ancestors, max_descendants |-> max_descendants]

\* The levels of the CoinEligibilityFilter cascade of SelectCoins, in the
\* order of the code, for the package limits of the node.
Filters(p) ==
    LET max_ancestors == Max(1, p.limit_ancestor_count)
        max_descendants == Max(1, p.limit_descendant_count)
    IN  <<EligibilityFilter3(1, 6, 0),
          EligibilityFilter3(1, 1, 0),
          EligibilityFilter3(0, 1, 2),
          EligibilityFilter4(0, 1, Min(4, max_ancestors \div 3),
                             Min(4, max_descendants \div 3)),
          EligibilityFilter4(0, 1, max_ancestors \div 2, max_descendants \div 2),
          EligibilityFilter4(0, 1, max_ancestors - 1, max_descendants - 1),
          EligibilityFilter3(0, 1, UnlimitedAncestors)>>

\* The cascade trying every level whatever the settings of the wallet say.
LevelAlways(p, k) == TRUE

\* Whether SelectCoins tries level k of the cascade: the levels that admit
\* coins without confirmation need m_spend_zero_conf_change, and the last
\* one also that long chains are not rejected.
LevelTried(p, k) ==
    /\ k >= 3 => p.m_spend_zero_conf_change
    /\ k = 7 => ~p.fRejectLongChains

\* OutputGroup::EligibleForSpending of the group of one coin.
EligibleForSpending(coin, filter) ==
    /\ coin.nDepth >= (IF coin.fFromMe THEN filter.conf_mine ELSE filter.conf_theirs)
    /\ coin.ancestors <= filter.max_ancestors
    /\ coin.descendants <= filter.max_descendants

\* The effective value of a coin: its value less the fee of spending it.
EffectiveValue(coin, rate) == coin.nValue - GetFee(rate, InputSize)

RECURSIVE SumEffective(_, _, _)
SumEffective(cs, S, rate) ==
    IF S = {} THEN 0
    ELSE LET i == CHOOSE x \in S : TRUE
         IN  EffectiveValue(cs[i], rate) + SumEffective(cs, S \ {i}, rate)

\* SelectCoinsBnB: the selections of the pool whose effective value covers
\* the target and the fee of the rest of the transaction without exceeding
\* them by more than the cost of change, and is the nearest to them.
BnBWithin(cs, pool, rate, actual_target, cost_of_change) ==
    {S \in CanonicalSubsets(cs, pool) :
        /\ S # {}
        /\ SumEffective(cs, S, rate) >= actual_target
        /\ SumEffective(cs, S, rate) <= actual_target + cost_of_change}

SelectCoinsBnB(cs, pool, rate, nTargetValue, cost_of_change, not_input_fees) ==
    LET within == BnBWithin(cs, pool, rate, nTargetValue + not_input_fees,
                            cost_of_change)
    IN  {S \in within :
            \A T \in within :
                SumEffective(cs, S, rate) <= SumEffective(cs, T, rate)}

\* KnapsackSolver: fails when the pool is worth less than the target, and
\* otherwise returns some selection that covers the target.
KnapsackSolver(cs, pool, nTargetValue) ==
    {S \in CanonicalSubsets(cs, pool) :
        S # {} /\ SumValues(cs, S) >= nTargetValue}

\* The pool of the exact-fit pass: the coins of positive effective value.
PositiveOnly(cs, pool, rate) ==
    {i \in pool : EffectiveValue(cs[i], rate) > 0}

SelectCoinsMinConfKnapsack(cs, vCoins, p, nTargetValue, filter, use_bnb, tx_noinputs_size) ==
    LET eligible == {i \in vCoins : EligibleForSpending(cs[i], filter)}
        sel == KnapsackSolver(cs, eligible, nTargetValue)
    IN  [sel |-> {[setCoinsRet |-> S, nValueRet |-> SumValues(cs, S)] : S \in sel},
         bnb_used |-> use_bnb]

\* SelectCoinsMinConf: the selections [setCoinsRet, nValueRet] one pass can
\* return over the eligible coins (none when it fails), and bnb_used.
SelectCoinsMinConf(cs, vCoins, p, nTargetValue, filter, use_bnb, tx_noinputs_size) ==
    LET eligible == {i \in vCoins : EligibleForSpending(cs[i], filter)}
        cost_of_change == GetFee(GetDiscardRate(p), InputSize)
                          + GetFee(p.feeRate, OutputSize)
        not_input_fees == GetFee(p.feeRate, tx_noinputs_size)
        sel == IF use_bnb
               THEN SelectCoinsBnB(cs, PositiveOnly(cs, eligible, p.feeRate),
                                   p.feeRate, nTargetValue, cost_of_change,
                                   not_input_fees)
               ELSE KnapsackSolver(cs, eligible, nTargetValue)
    IN  [sel |-> {[setCoinsRet |-> S, nValueRet |-> SumValues(cs, S)] : S \in sel},
         bnb_used |-> use_bnb]

\* SelectCoins without coin control: the coinbase flags, then the cascade of
\* passes, each tried only when the one before it failed.
SelectCoins(cs, vCoinsNoCoinbase, vCoinsWithCoinbase, p, nTargetValue, use_bnb, tx_noinputs_size) ==
    LET fShieldCoinbase == p.fCoinbaseMustBeShielded
        vCoins == IF fShieldCoinbase THEN vCoinsNoCoinbase ELSE vCoinsWithCoinbase
        value == SumValues(cs, vCoinsNoCoinbase)
        valueWithCoinbase == SumValues(cs, vCoinsWithCoinbase)
        pass(k) == SelectCoinsMinConf(cs, vCoins, p, nTargetValue,
                                      Filters(p)[k], use_bnb, tx_noinputs_size)
        res(k) == LevelTried(p, k) /\ pass(k).sel # {}
        first == CHOOSE k \in DOMAIN Filters(p) :
                     /\ res(k)
                     /\ \A j \in 1 .. k - 1 : ~res(j)
        sel == IF \E k \in DOMAIN Filters(p) : res(k) THEN pass(first).sel
               ELSE {}
    IN  [sel |-> sel,
         bnb_used |-> use_bnb,
         fOnlyCoinbaseCoinsRet |->
             vCoinsNoCoinbase = {} /\ vCoinsWithCoinbase # {},
         fNeedCoinbaseCoinsRet |->
             /\ fShieldCoinbase
             /\ Cardinality(vCoinsWithCoinbase) > Cardinality(vCoinsNoCoinbase)
             /\ value <= nTargetValue
             /\ valueWithCoinbase >= nTargetValue]

\* ------------------------------------------------------------------------
\* CreateTransaction: the fee and change loop
\* ------------------------------------------------------------------------

RECURSIVE SumAmounts(_)
SumAmounts(vecSend) ==
    IF vecSend = << >> THEN 0
    ELSE Head(vecSend).nAmount + SumAmounts(Tail(vecSend))

SubtractFrom(vecSend) == {k \in DOMAIN vecSend : vecSend[k].fSubtractFeeFromAmount}

\* The outputs to the payees when nobody pays the fee out of an amount.
PayeeOutputsInFull(vecSend, nFeeRet) ==
    [k \in DOMAIN vecSend |->
        [nValue |-> vecSend[k].nAmount, dest |-> vecSend[k].dest,
         fChange |-> FALSE]]

\* The outputs to the payees of one pass: the fee paid so far is taken in
\* equal parts from the recipients that asked for it, the first of them
\* paying the remainder.
PayeeOutputs(vecSend, nFeeRet) ==
    LET sub == SubtractFrom(vecSend)
        n == Cardinality(sub)
        first == CHOOSE k \in sub : \A j \in sub : k <= j
    IN  [k \in DOMAIN vecSend |->
            [nValue |-> vecSend[k].nAmount
                        - (IF k \in sub THEN nFeeRet \div n ELSE 0)
                        - (IF k \in sub /\ k = first THEN nFeeRet % n ELSE 0),
             dest |-> vecSend[k].dest,
             fChange |-> FALSE]]

\* The reason the pass gives up on a recipient output that is dust.
DustReason(recipient, txout, nFeeRet) ==
    IF recipient.fSubtractFeeFromAmount /\ nFeeRet > 0
    THEN IF txout.nValue < 0
         THEN "The transaction amount is too small to pay the fee"
         ELSE "The transaction amount is too small to send after the fee has been deducted"
    ELSE "Transaction amount too small"

InsertAt(seq, pos, x) ==
    SubSeq(seq, 1, pos) \o <<x>> \o SubSeq(seq, pos + 1, Len(seq))

\* The state of the loop before its first pass when the exact-fit pass is
\* asked for whatever the recipients are.
LoopStartAlwaysBnB(vecSend, nChangePosRequest) ==
    [phase |-> "loop", vecSend |-> vecSend,
     nChangePosRequest |-> nChangePosRequest, iter |-> 0, nFeeRet |-> 0, pick_new_inputs |-> TRUE,
     use_bnb |-> TRUE, setCoins |-> {}, nValueIn |-> 0,
     vout |-> << >>, nChangePosInOut |-> -1, strFailReason |-> ""]

\* The state of the loop before its first pass.
LoopStart(vecSend, nChangePosRequest) ==
    [phase |-> "loop", vecSend |-> vecSend,
     nChangePosRequest |-> nChangePosRequest, iter |-> 0, nFeeRet |-> 0, pick_new_inputs |-> TRUE,
     use_bnb |-> SubtractFrom(vecSend) = {}, setCoins |-> {}, nValueIn |-> 0,
     vout |-> << >>, nChangePosInOut |-> -1, strFailReason |-> ""]

LoopFails(st, reason) ==
    [st EXCEPT !.phase = "failed", !.strFailReason = reason]

\* The second half of a pass that asks for one more pass without raising
\* the fee.
FeePartNoRaise(p, st) ==
    LET nBytes == TxSize(Cardinality(st.setCoins), Len(st.vout))
        nFeeNeeded == GetMinimumFee(p, nBytes)
    IN  IF st.nFeeRet >= nFeeNeeded
        THEN [st EXCEPT !.phase = "built"]
        ELSE [st EXCEPT !.use_bnb = FALSE]

\* The second half of a pass that ends the loop whatever the fee paid.
FeePartAnyFee(p, st) == [st EXCEPT !.phase = "built"]

\* The second half of a pass, from the size of the transaction on: the fee
\* needed is compared with the fee paid and the pass ends the loop, fails, or
\* asks for one more pass.
FeePart(p, st) ==
    LET nSub == Cardinality(SubtractFrom(st.vecSend))
        pos == st.nChangePosInOut
        nBytes == TxSize(Cardinality(st.setCoins), Len(st.vout))
        nFeeNeeded == GetMinimumFee(p, nBytes)
        fee_needed_with_change ==
            GetMinimumFee(p, nBytes + OutputSize + 2)
        minimum_value_for_change == GetDustThreshold(GetDiscardRate(p))
        extraFeePaid == st.nFeeRet - nFeeNeeded
        additionalFeeNeeded == nFeeNeeded - st.nFeeRet
    IN  IF st.nFeeRet >= nFeeNeeded
        THEN IF /\ pos = -1 /\ nSub = 0 /\ st.pick_new_inputs
                /\ st.nFeeRet >= fee_needed_with_change + minimum_value_for_change
             THEN [st EXCEPT !.pick_new_inputs = FALSE,
                             !.nFeeRet = fee_needed_with_change]
             ELSE IF st.nFeeRet > nFeeNeeded /\ pos # -1 /\ nSub = 0
             THEN [st EXCEPT !.phase = "built",
                             !.vout[pos + 1].nValue = @ + extraFeePaid,
                             !.nFeeRet = nFeeNeeded]
             ELSE [st EXCEPT !.phase = "built"]
        ELSE IF ~st.pick_new_inputs
        THEN LoopFails(st, "Transaction fee and change calculation failed")
        ELSE IF /\ pos # -1 /\ nSub = 0
                /\ st.vout[pos + 1].nValue >= MIN_FINAL_CHANGE + additionalFeeNeeded
        THEN [st EXCEPT !.phase = "built",
                        !.vout[pos + 1].nValue = @ - additionalFeeNeeded,
                        !.nFeeRet = nFeeNeeded]
        ELSE [st EXCEPT !.pick_new_inputs = (nSub = 0) /\ st.pick_new_inputs,
                        !.nFeeRet = nFeeNeeded,
                        !.use_bnb = FALSE]

\* The middle of a pass, once the inputs are known: the change output is
\* placed, or its value is left to the fee.
ChangePart(p, st, payees, nValueToSelect, bnb_used, changeDest) ==
    LET nChange == st.nValueIn - nValueToSelect
        newTxOut == [nValue |-> nChange, dest |-> changeDest, fChange |-> TRUE]
        positions == IF st.nChangePosRequest = -1
                     THEN 0 .. Len(payees)
                     ELSE {st.nChangePosRequest}
    IN  IF nChange > 0
        THEN IF IsDust(nChange, GetDiscardRate(p)) \/ bnb_used
             THEN {FeePart(p,
                     [st EXCEPT !.vout = payees, !.nChangePosInOut = -1,
                                !.nFeeRet = @ + nChange])}
             ELSE {IF pos > Len(payees)
                   THEN LoopFails([st EXCEPT !.vout = payees,
                                             !.nChangePosInOut = pos],
                                  "Change index out of range")
                   ELSE FeePart(p,
                          [st EXCEPT !.vout = InsertAt(payees, pos, newTxOut),
                                     !.nChangePosInOut = pos])
                   : pos \in positions}
        ELSE {FeePart(p,
                [st EXCEPT !.vout = payees, !.nChangePosInOut = -1])}

\* The reason CreateTransaction gives when the selection fails for good.
SelectionFailure(p, res) ==
    IF res.fOnlyCoinbaseCoinsRet /\ p.fCoinbaseMustBeShielded
    THEN "Coinbase funds can only be sent to a zaddr"
    ELSE IF res.fNeedCoinbaseCoinsRet /\ p.fCoinbaseMustBeShielded
    THEN "Insufficient funds, coinbase funds can only be spent after they have been sent to a zaddr"
    ELSE "Insufficient funds"

\* One pass of the loop: the states the next pass, or the code after the
\* loop, can start from.
LoopPass(cs, locked, p, changeDest, st0) ==
    LET st == [st0 EXCEPT !.iter = @ + 1]
        vecSend == st.vecSend
        nSub == Cardinality(SubtractFrom(vecSend))
        nValueToSelect == SumAmounts(vecSend)
                          + (IF nSub = 0 THEN st.nFeeRet ELSE 0)
        payees == PayeeOutputs(vecSend, st.nFeeRet)
        dusty == {k \in DOMAIN payees : IsDust(payees[k].nValue, p.dustRelayFee)}
        firstDust == CHOOSE k \in dusty : \A j \in dusty : k <= j
        tx_noinputs_size == TxNoInputsOverhead + OutputSize * Len(vecSend)
        res == SelectCoins(cs, AvailableCoins(cs, locked, FALSE),
                           AvailableCoins(cs, locked, TRUE), p, nValueToSelect,
                           st.use_bnb, tx_noinputs_size)
    IN  IF dusty # {}
        THEN {LoopFails([st EXCEPT !.vout = SubSeq(payees, 1, firstDust - 1)],
                        DustReason(vecSend[firstDust], payees[firstDust],
                                   st.nFeeRet))}
        ELSE IF ~st.pick_new_inputs
        THEN ChangePart(p, st, payees, nValueToSelect, FALSE, changeDest)
        ELSE IF res.sel = {}
        THEN IF res.bnb_used
             THEN {[st EXCEPT !.use_bnb = FALSE, !.vout = payees,
                              !.setCoins = {}, !.nValueIn = 0]}
             ELSE {LoopFails([st EXCEPT !.vout = payees, !.setCoins = {},
                                        !.nValueIn = 0],
                             SelectionFailure(p, res))}
        ELSE UNION {ChangePart(p,
                               [st EXCEPT !.setCoins = s.setCoinsRet,
                                          !.nValueIn = s.nValueRet],
                               payees, nValueToSelect, res.bnb_used, changeDest)
                    : s \in res.sel}

\* ------------------------------------------------------------------------
\* The fee and change loop, one pass at a time
\* ------------------------------------------------------------------------

\* The number of coins of the largest wallet.
MaxCoins == 12

Coin(nValue, fCoinbase, nDepth, fFromMe) ==
    [nValue |-> nValue, fCoinbase |-> fCoinbase, nDepth |-> nDepth,
     fFromMe |-> fFromMe, fSpent |-> FALSE,
     ancestors |-> IF nDepth = 0 THEN 1 ELSE 0,
     descendants |-> IF nDepth = 0 THEN 1 ELSE 0]

\* Change of the wallet in the mempool, at the end of a chain of
\* unconfirmed transactions: getTransactionAncestry counts the transaction
\* itself among its ancestors and its descendants.
UnconfirmedChange(nValue, ancestors) ==
    [Coin(nValue, FALSE, 0, TRUE) EXCEPT !.ancestors = ancestors]

\* A destination: an address of somebody else, or the key of the wallet with
\* the given key pool index (0: a key given out as a receiving address).
Dest(kind, nIndex) == [kind |-> kind, nIndex |-> nIndex]

Recipient(nAmount, fSubtractFeeFromAmount) ==
    [nAmount |-> nAmount, fSubtractFeeFromAmount |-> fSubtractFeeFromAmount,
     dest |-> Dest("theirs", 0)]

\* Wallets of small received coins, each worth little more than the fee of
\* spending it at 1000 satoshis per 1000 bytes.
SmallCoinPools ==
    {[i \in 1 .. n |-> Coin(160, FALSE, 6, FALSE)] : n \in MaxCoins - 2 .. MaxCoins}

PolicyOf(feeRate, discardRate, dustRelayFee, maxTxFee, fShield, fZeroConf) ==
    [feeRate |-> feeRate, discardRate |-> discardRate,
     dustRelayFee |-> dustRelayFee, m_default_max_tx_fee |-> maxTxFee,
     fCoinbaseMustBeShielded |-> fShield,
     m_spend_zero_conf_change |-> fZeroConf,
     fRejectLongChains |-> FALSE,
     limit_ancestor_count |-> 25, limit_descendant_count |-> 25]

\* The wallets of the scenarios: one coin; three coins; a coinbase coin
\* alone and beside unconfirmed change; unconfirmed change beside a recent
\* receipt; a large coin beside a small one; no coin.
CoinPools ==
    {<<Coin(100, FALSE, 6, FALSE)>>,
     <<Coin(10, FALSE, 6, FALSE), Coin(20, FALSE, 6, FALSE),
       Coin(30, FALSE, 6, FALSE)>>,
     <<Coin(50, TRUE, 100, FALSE)>>,
     <<Coin(30, FALSE, 0, TRUE), Coin(50, TRUE, 100, FALSE)>>,
     <<Coin(30, FALSE, 0, TRUE), Coin(20, FALSE, 3, FALSE)>>,
     <<Coin(1000000, FALSE, 6, FALSE), Coin(600, FALSE, 6, FALSE)>>,
     << >>}

FeeRates == {0, 1, 1000}
DustRates == {0, 3000}
MaxTxFees == {100, 10000000}
Amounts == {30, 40, 100, 700}
ChangePositions == {-1, 0, 1, 2}

Policies ==
    {PolicyOf(f, d, d, m, s, z) :
        f \in FeeRates, d \in DustRates, m \in MaxTxFees,
        s \in BOOLEAN, z \in BOOLEAN}

Requests ==
    {LoopStart(<<Recipient(a, s)>>, pos) :
        a \in Amounts, s \in BOOLEAN, pos \in ChangePositions}

\* The change key of a call observed from its loop on.
SomeChangeKey == Dest("pool", 1)

\* One pass of the loop of a CreateTransaction call.
CreateTransactionPass ==
    /\ create.phase = "loop"
    /\ \E s \in LoopPass(coins, setLockedCoins, policy, SomeChangeKey, create) :
           create' = s
    /\ UNCHANGED <<chain, mapWallet, mapTxSpends, mapTxSproutNullifiers,
                   mapTxSaplingNullifiers, nOrderPosNext, wtxOrdered, haveKeys, haveChangeKeys, migration, unloading,
                   scan, threads, network, nNow, walk, database, coins, setLockedCoins,
                   keyPool, policy, last>>

\* A call of CreateTransaction that has reserved its change key and enters
\* the loop, in a wallet whose coins, fee rates and flags do not change.
InitFee ==
    /\ InitLedger
    /\ scan = NoScan
    /\ threads = NoThreads
    /\ haveKeys = FALSE
    /\ network = {}
    /\ coins \in CoinPools \cup SmallCoinPools
    /\ setLockedCoins = {}
    /\ keyPool = EmptyKeyPool
    /\ policy \in {p \in Policies : p.m_default_max_tx_fee = 100}
    /\ create \in Requests

NextFee == CreateTransactionPass

SpecFee == InitFee /\ [][NextFee]_vars

\* ------------------------------------------------------------------------
\* One pass of SelectCoinsMinConf
\* ------------------------------------------------------------------------

\* The largest target of a single pass.
MaxTarget == 40

\* The size of a transaction without inputs that pays one recipient.
OneRecipientSize == TxNoInputsOverhead + OutputSize

\* SelectCoinsMinConf is called on the coins AvailableCoins returns and
\* answers with a selection, or fails.
SelectCoinsMinConfCall ==
    /\ create.phase = "select"
    /\ LET r == SelectCoinsMinConf(coins,
                                   AvailableCoins(coins, setLockedCoins, TRUE),
                                   policy, create.nTargetValue,
                                   Filters(policy)[create.filter], create.use_bnb,
                                   OneRecipientSize)
           done(ok, S, v) ==
               [phase |-> "selected", nTargetValue |-> create.nTargetValue,
                filter |-> create.filter, use_bnb |-> create.use_bnb,
                ok |-> ok, setCoinsRet |-> S, nValueRet |-> v,
                bnb_used |-> r.bnb_used]
       IN  IF r.sel = {}
           THEN create' = done(FALSE, {}, 0)
           ELSE \E s \in r.sel : create' = done(TRUE, s.setCoinsRet, s.nValueRet)
    /\ UNCHANGED <<chain, mapWallet, mapTxSpends, mapTxSproutNullifiers,
                   mapTxSaplingNullifiers, nOrderPosNext, wtxOrdered, haveKeys, haveChangeKeys, migration, unloading,
                   scan, threads, network, nNow, walk, database, coins, setLockedCoins,
                   keyPool, policy, last>>

\* A wallet asked for one pass of coin selection.
InitSelect ==
    /\ InitLedger
    /\ scan = NoScan
    /\ threads = NoThreads
    /\ haveKeys = FALSE
    /\ network = {}
    /\ coins \in CoinPools
    /\ setLockedCoins = {}
    /\ keyPool = EmptyKeyPool
    /\ policy \in {p \in Policies : p.m_default_max_tx_fee = 100}
    /\ create \in {[phase |-> "select", nTargetValue |-> t, filter |-> k,
                     use_bnb |-> b] :
                        t \in 1 .. MaxTarget, k \in DOMAIN Filters(policy),
                        b \in BOOLEAN}

NextSelect == SelectCoinsMinConfCall

SpecSelect == InitSelect /\ [][NextSelect]_vars

\* ------------------------------------------------------------------------
\* One call of SelectCoins
\* ------------------------------------------------------------------------

\* Wallets whose coins become eligible level by level: a receipt with six
\* confirmations, one with three, and change in the mempool at the end of
\* chains of 1, 3, 10, 20 and 30 unconfirmed transactions.
CascadePools ==
    {<<Coin(20, FALSE, 6, FALSE), Coin(21, FALSE, 3, FALSE),
       UnconfirmedChange(22, 1), UnconfirmedChange(23, 3),
       UnconfirmedChange(24, 10), UnconfirmedChange(25, 20),
       UnconfirmedChange(26, 30)>>,
     <<Coin(20, FALSE, 6, FALSE), UnconfirmedChange(22, 1),
       UnconfirmedChange(26, 30)>>,
     <<Coin(21, FALSE, 3, FALSE), UnconfirmedChange(24, 10)>>}

\* The amounts asked of them.
CascadeTargets == {20, 40, 60, 80, 100, 120, 140, 161, 200}

\* SelectCoins is called on the coins AvailableCoins returns and answers
\* with a selection, or fails.
SelectCoinsCall ==
    /\ create.phase = "cascade"
    /\ LET r == SelectCoins(coins, AvailableCoins(coins, setLockedCoins, FALSE),
                            AvailableCoins(coins, setLockedCoins, TRUE),
                            policy, create.nTargetValue, create.use_bnb,
                            OneRecipientSize)
           done(ok, S, v) ==
               [phase |-> "cascaded", nTargetValue |-> create.nTargetValue,
                use_bnb |-> create.use_bnb, ok |-> ok, setCoinsRet |-> S,
                nValueRet |-> v]
       IN  IF r.sel = {}
           THEN create' = done(FALSE, {}, 0)
           ELSE \E s \in r.sel : create' = done(TRUE, s.setCoinsRet, s.nValueRet)
    /\ UNCHANGED <<chain, mapWallet, mapTxSpends, mapTxSproutNullifiers,
                   mapTxSaplingNullifiers, nOrderPosNext, wtxOrdered, haveKeys, haveChangeKeys, migration, unloading,
                   scan, threads, network, nNow, walk, database, coins, setLockedCoins,
                   keyPool, policy, last>>

\* A wallet asked for one coin selection, under every setting of
\* -spendzeroconfchange and -walletrejectlongchains.
InitCascade ==
    /\ InitLedger
    /\ scan = NoScan
    /\ threads = NoThreads
    /\ haveKeys = FALSE
    /\ network = {}
    /\ coins \in CascadePools
    /\ setLockedCoins = {}
    /\ keyPool = EmptyKeyPool
    /\ policy \in {[PolicyOf(f, 0, 0, 100, FALSE, z) EXCEPT
                       !.fRejectLongChains = r] :
                      f \in {0, 1}, z \in BOOLEAN, r \in BOOLEAN}
    /\ create \in {[phase |-> "cascade", nTargetValue |-> t, use_bnb |-> b] :
                      t \in CascadeTargets, b \in BOOLEAN}

NextCascade == SelectCoinsCall

SpecCascade == InitCascade /\ [][NextCascade]_vars

\* ------------------------------------------------------------------------
\* The key pool
\* ------------------------------------------------------------------------

\* The size the key pool is topped up to (-keypool).
KeypoolSize == 2

\* The highest key pool index the wallets of the model go to.
MaxKeyIndex == 6

\* The key pool record (CKeyPool) written for a new pool key.
PoolEntry(nIndex, fInternal) == [nIndex |-> nIndex, fInternal |-> fInternal]

\* CanGetAddresses: the pool asked has a key, or keys can be generated.
CanGetAddresses(kp, internal) ==
    LET keypool_has_keys ==
            IF internal /\ kp.fHDSplit
            THEN kp.setInternalKeyPool # {}
            ELSE kp.setExternalKeyPool \cup kp.set_pre_split_keypool # {}
    IN  keypool_has_keys \/ kp.fCanGenerateKeys

\* TopUpKeyPool: unless the wallet is locked or cannot generate keys, the
\* external and then the internal pool are filled up to the target size
\* with keys of the next indices.
TopUpKeyPool(kp) ==
    LET nTargetSize == Max(KeypoolSize, 1)
        missingExternal ==
            Max(nTargetSize - Cardinality(kp.setExternalKeyPool), 0)
        missingInternal ==
            IF kp.fHDSplit
            THEN Max(nTargetSize - Cardinality(kp.setInternalKeyPool), 0)
            ELSE 0
        base == kp.m_max_keypool_index
        external == base + 1 .. base + missingExternal
        internal == base + missingExternal + 1
                    .. base + missingExternal + missingInternal
    IN  IF ~kp.fCanGenerateKeys \/ kp.fLocked
        THEN kp
        ELSE [kp EXCEPT
                !.setExternalKeyPool = @ \cup external,
                !.setInternalKeyPool = @ \cup internal,
                !.entries = @ \cup {PoolEntry(i, FALSE) : i \in external}
                              \cup {PoolEntry(i, TRUE) : i \in internal},
                !.m_max_keypool_index = base + missingExternal + missingInternal]

Oldest(S) == CHOOSE i \in S : \A j \in S : i <= j

\* ReserveKeyFromKeyPool: after a top-up the oldest key of the pre-split
\* pool, if that has keys, and else of the pool asked for, is taken out.
ReserveKeyFromKeyPool(kp0, fRequestedInternal) ==
    LET kp == TopUpKeyPool(kp0)
        fReturningInternal == fRequestedInternal /\ kp.fHDSplit
        use_split_keypool == kp.set_pre_split_keypool = {}
        setKeyPool == IF ~use_split_keypool THEN kp.set_pre_split_keypool
                      ELSE IF fReturningInternal THEN kp.setInternalKeyPool
                      ELSE kp.setExternalKeyPool
        nIndex == Oldest(setKeyPool)
        keypool == CHOOSE e \in kp.entries : e.nIndex = nIndex
    IN  IF setKeyPool = {}
        THEN [ok |-> FALSE, kp |-> kp, nIndex |-> -1, fInternal |-> FALSE]
        ELSE [ok |-> TRUE,
              kp |-> [kp EXCEPT
                        !.set_pre_split_keypool = @ \ {nIndex},
                        !.setInternalKeyPool =
                            IF use_split_keypool THEN @ \ {nIndex} ELSE @,
                        !.setExternalKeyPool =
                            IF use_split_keypool THEN @ \ {nIndex} ELSE @],
              nIndex |-> nIndex, fInternal |-> keypool.fInternal]

\* KeepKey: the pool record of the key is erased.
KeepKey(kp, nIndex) ==
    [kp EXCEPT !.entries = {e \in @ : e.nIndex # nIndex}]

\* ReturnKey: the key goes to the internal pool if it is internal, and else
\* to the pre-split pool if that has keys, and else to the external pool.
ReturnKey(kp, nIndex, fInternal) ==
    IF fInternal
    THEN [kp EXCEPT !.setInternalKeyPool = @ \cup {nIndex}]
    ELSE IF kp.set_pre_split_keypool # {}
    THEN [kp EXCEPT !.set_pre_split_keypool = @ \cup {nIndex}]
    ELSE [kp EXCEPT !.setExternalKeyPool = @ \cup {nIndex}]

\* ReserveDestination::GetReservedDestination for the change of a call.
GetReservedDestination(kp, internal) ==
    IF ~CanGetAddresses(kp, internal)
    THEN [ok |-> FALSE, kp |-> kp, nIndex |-> -1, fInternal |-> FALSE]
    ELSE ReserveKeyFromKeyPool(kp, internal)

\* ReserveDestination::KeepDestination and ReturnDestination.
KeepDestination(kp, nIndex) ==
    IF nIndex # -1 THEN KeepKey(kp, nIndex) ELSE kp

ReturnDestination(kp, nIndex, fInternal) ==
    IF nIndex # -1 THEN ReturnKey(kp, nIndex, fInternal) ELSE kp

\* ------------------------------------------------------------------------
\* CreateTransaction, CommitTransaction and GetAmounts
\* ------------------------------------------------------------------------

\* The returns of the loop started in state st.
RECURSIVE RunLoop(_, _, _, _, _)
RunLoop(cs, locked, p, changeDest, st) ==
    IF st.phase # "loop"
    THEN {st}
    ELSE UNION {RunLoop(cs, locked, p, changeDest, s) :
                   s \in LoopPass(cs, locked, p, changeDest, st)}

\* What a call of CreateTransaction returns and leaves of the key pool.
Returned(ret, strFailReason, kp, reserved, st) ==
    [keyPool |-> kp,
     result |-> [phase |-> "returned", ret |-> ret,
                 strFailReason |-> strFailReason, reserved |-> reserved,
                 vecSend |-> st.vecSend,
                 nChangePosRequest |-> st.nChangePosRequest,
                 vin |-> st.setCoins, vout |-> st.vout,
                 nFeeRet |-> st.nFeeRet,
                 nChangePosInOut |-> st.nChangePosInOut, iter |-> st.iter]]

\* CreateTransaction: the checks of the recipients, the change key taken
\* from the key pool, the loop, the limit on the fee; the change key is kept
\* on success and handed back on every failure after it was reserved.
CreateTransaction(cs, locked, kp, p, vecSend, nChangePosRequest) ==
    LET start == LoopStart(vecSend, nChangePosRequest)
        r == GetReservedDestination(kp, TRUE)
        back == ReturnDestination(r.kp, r.nIndex, r.fInternal)
    IN  IF \E k \in DOMAIN vecSend :
               vecSend[k].nAmount < 0
               \/ SumAmounts(SubSeq(vecSend, 1, k - 1)) < 0
        THEN {Returned(FALSE, "Transaction amounts must not be negative",
                       kp, -1, start)}
        ELSE IF vecSend = << >>
        THEN {Returned(FALSE, "Transaction must have at least one recipient",
                       kp, -1, start)}
        ELSE IF ~CanGetAddresses(kp, TRUE)
        THEN {Returned(FALSE, "Can't generate a change-address key. No keys in the internal keypool and can't generate any keys.",
                       kp, -1, start)}
        ELSE IF ~r.ok
        THEN {Returned(FALSE, "Keypool ran out, please call keypoolrefill first",
                       r.kp, -1, start)}
        ELSE {IF st.phase = "failed"
              THEN Returned(FALSE, st.strFailReason, back, r.nIndex, st)
              ELSE IF st.nFeeRet > p.m_default_max_tx_fee
              THEN Returned(FALSE, "Fee exceeds maximum configured by -maxtxfee",
                            back, r.nIndex, st)
              ELSE Returned(TRUE, "", KeepDestination(r.kp, r.nIndex),
                            r.nIndex, st)
              : st \in RunLoop(cs, locked, p, Dest("pool", r.nIndex), start)}

\* IsMine of a destination, and the destinations of the address book: the
\* addresses the wallet gave out by name, never a key taken for change.
IsMineDest(dest) == dest.kind \in {"pool", "ours"}

InAddressBook(dest) == dest.kind \in {"ours", "theirs"}

\* IsChange: an output to a script of the wallet that is not in the address
\* book.
IsChange(txout) == IsMineDest(txout.dest) /\ ~InAddressBook(txout.dest)

\* GetAmounts that reports every output of the wallet as received.
GetAmountsWithChange(vout, nDebit) ==
    [listSent |-> {[dest |-> vout[i].dest, nValue |-> vout[i].nValue, vout |-> i - 1]
                      : i \in {j \in DOMAIN vout : nDebit > 0}},
     listReceived |-> {[dest |-> vout[i].dest, nValue |-> vout[i].nValue, vout |-> i - 1]
                          : i \in {j \in DOMAIN vout : IsMineDest(vout[j].dest)}}]

\* GetAmounts of a transparent transaction: the sent and received entries of
\* its outputs; change is not reported when the transaction debits the wallet.
GetAmounts(vout, nDebit) ==
    LET handled == {i \in DOMAIN vout :
                       IF nDebit > 0 THEN ~IsChange(vout[i])
                       ELSE IsMineDest(vout[i].dest)}
        entry(i) == [dest |-> vout[i].dest, nValue |-> vout[i].nValue,
                     vout |-> i - 1]
    IN  [listSent |-> {entry(i) : i \in {j \in handled : nDebit > 0}},
         listReceived |->
             {entry(i) : i \in {j \in handled : IsMineDest(vout[j].dest)}}]

\* The debit of a transaction: the value of its inputs that are the wallet's.
GetDebit(cs, inputs) == SumValues(cs, inputs)

\* The outputs a committed transaction adds to the wallet: unconfirmed, in
\* the mempool, from the wallet itself.
RECURSIVE OwnOutputs(_)
OwnOutputs(vout) ==
    IF vout = << >> THEN << >>
    ELSE (IF IsMineDest(Head(vout).dest)
          THEN <<Coin(Head(vout).nValue, FALSE, 0, TRUE)>>
          ELSE << >>) \o OwnOutputs(Tail(vout))

\* The number of outputs the wallets of the model hold, spent ones included.
MaxOutputs == 4

Sent(op, ret) == [op |-> op, tx |-> 0, ret |-> ret, ok |-> TRUE]

LedgerUnchanged ==
    UNCHANGED <<chain, mapWallet, mapTxSpends, mapTxSproutNullifiers,
                mapTxSaplingNullifiers, nOrderPosNext, wtxOrdered, haveKeys, haveChangeKeys, migration, unloading,
                   scan, threads, network, nNow, walk, database>>

\* A caller asks for a transaction; the call returns.
CreateTransactionCall(vecSend, nChangePosRequest) ==
    /\ Running
    /\ create.phase = "none"
    /\ keyPool.m_max_keypool_index <= MaxKeyIndex
    /\ \E res \in CreateTransaction(coins, setLockedCoins, keyPool, policy,
                                    vecSend, nChangePosRequest) :
           /\ create' = res.result
           /\ keyPool' = res.keyPool
           /\ last' = Sent("CreateTransaction", res.result.ret)
    /\ UNCHANGED <<coins, setLockedCoins, policy>>
    /\ LedgerUnchanged

\* CommitTransaction of the transaction the last call returned: its inputs
\* are spent and its outputs to the wallet become coins.
CommitTransaction ==
    /\ Running
    /\ create.phase = "returned"
    /\ create.ret
    /\ Len(coins) + Len(OwnOutputs(create.vout)) <= MaxOutputs
    /\ coins' = [i \in DOMAIN coins |->
                    IF i \in create.vin
                    THEN [coins[i] EXCEPT !.fSpent = TRUE]
                    ELSE coins[i]] \o OwnOutputs(create.vout)
    /\ create' = [create EXCEPT !.phase = "committed"]
    /\ last' = Sent("CommitTransaction", TRUE)
    /\ UNCHANGED <<setLockedCoins, keyPool, policy>>
    /\ LedgerUnchanged

LockCoin(output) ==
    /\ Running
    /\ output \in DOMAIN coins
    /\ setLockedCoins' = setLockedCoins \cup {output}
    /\ last' = Sent("LockCoin", TRUE)
    /\ UNCHANGED <<coins, keyPool, policy, create>>
    /\ LedgerUnchanged

UnlockCoin(output) ==
    /\ Running
    /\ output \in DOMAIN coins
    /\ setLockedCoins' = setLockedCoins \ {output}
    /\ last' = Sent("UnlockCoin", TRUE)
    /\ UNCHANGED <<coins, keyPool, policy, create>>
    /\ LedgerUnchanged

\* The key pools of the scenarios: full; one key left in each pool; one and
\* two keys left of the pool of before the split into internal and external
\* keys; no key.
PoolOf(internal, external, pre_split, fLocked, fCanGenerateKeys) ==
    [setInternalKeyPool |-> internal, setExternalKeyPool |-> external,
     set_pre_split_keypool |-> pre_split,
     m_max_keypool_index |->
         IF internal \cup external \cup pre_split = {} THEN 0
         ELSE CHOOSE i \in internal \cup external \cup pre_split :
                  \A j \in internal \cup external \cup pre_split : j <= i,
     entries |-> {PoolEntry(i, TRUE) : i \in internal}
                 \cup {PoolEntry(i, FALSE) : i \in external \cup pre_split},
     fLocked |-> fLocked, fHDSplit |-> TRUE,
     fCanGenerateKeys |-> fCanGenerateKeys]

KeyPools ==
    {PoolOf(KeypoolSize + 1 .. 2 * KeypoolSize, 1 .. KeypoolSize, {}, l, TRUE)
        : l \in BOOLEAN}
    \cup {PoolOf({4}, {2}, {}, l, TRUE) : l \in BOOLEAN}
    \cup {PoolOf({3}, {2}, {1}, l, TRUE) : l \in BOOLEAN}
    \cup {PoolOf({4}, {3}, {1, 2}, l, TRUE) : l \in BOOLEAN}
    \cup {PoolOf({}, {}, {}, FALSE, g) : g \in BOOLEAN}

\* The key pool right after a top-up, and the fee settings the wallets of
\* the other key pools have.
FullKeyPool ==
    PoolOf(KeypoolSize + 1 .. 2 * KeypoolSize, 1 .. KeypoolSize, {}, FALSE, TRUE)

KeyPoolPolicies ==
    {p \in Policies :
        /\ p.feeRate = 1000
        /\ ~p.fCoinbaseMustBeShielded
        /\ p.m_spend_zero_conf_change}

NoRecipient == << >>

SendRequests ==
    {<<Recipient(a, s)>> : a \in Amounts \cup {-1}, s \in BOOLEAN}
    \cup {NoRecipient}

\* A wallet with coins and a key pool that is asked for transactions.
InitSend ==
    /\ InitLedger
    /\ scan = NoScan
    /\ threads = NoThreads
    /\ haveKeys = FALSE
    /\ network = {}
    /\ coins \in CoinPools
    /\ setLockedCoins = {}
    /\ keyPool \in KeyPools
    /\ policy \in Policies
    /\ keyPool = FullKeyPool \/ policy \in KeyPoolPolicies
    /\ create = NoCreate

NextSend ==
    \/ \E vecSend \in SendRequests, pos \in ChangePositions :
           CreateTransactionCall(vecSend, pos)
    \/ CommitTransaction
    \/ \E output \in 1 .. MaxOutputs : LockCoin(output)
    \/ \E output \in 1 .. MaxOutputs : UnlockCoin(output)

SpecSend == InitSend /\ [][NextSend]_vars

\* ------------------------------------------------------------------------
\* The two walks, one loop iteration per step, over any SpendIndex content
\* ------------------------------------------------------------------------

WalkTxs == {1, 2, 3}

RECURSIVE SetToSeq(_)
SetToSeq(S) == IF S = {} THEN << >> ELSE <<SetMin(S)>> \o SetToSeq(S \ {SetMin(S)})

\* The block MarkConflicted is called with: the tip of a one-block chain.
WalkBlock == <<0>>

WalkWalletTx(t, status) ==
    [NewWalletTx(FALSE, t, status, IF status = "CONFLICTED" THEN WalkBlock ELSE NullHash,
                 0, FALSE)
       EXCEPT !.nOrderPos = t - 1]

\* The walk state the Step operators work on, and its write-back.
WalkState ==
    [todo |-> walk.todo, done |-> walk.done, wallet |-> mapWallet,
     taken |-> walk.taken, ok |-> TRUE]

SetWalk(st) ==
    /\ mapWallet' = st.wallet
    /\ walk' = [walk EXCEPT !.todo = st.todo, !.done = st.done, !.taken = st.taken]
    /\ last' = [last EXCEPT !.ok = st.ok]
    /\ UNCHANGED <<chain, mapTxSpends, mapTxSproutNullifiers, mapTxSaplingNullifiers,
                   nOrderPosNext, wtxOrdered, haveKeys, haveChangeKeys, migration, unloading, scan, threads, network, nNow, untouched>>

MarkConflictedWalkStep ==
    /\ walk.kind = "MarkConflicted"
    /\ walk.todo # {}
    /\ SetWalk(MarkConflictedStep(chain, mapTxSpends, WalkBlock, WalkState))

AbandonWalkStep ==
    /\ walk.kind = "AbandonTransaction"
    /\ walk.todo # {}
    /\ SetWalk(AbandonStep(chain, mapTxSpends, WalkState))

\* A call of either walk has passed its entry checks and is about to enter
\* the loop; mapTxSpends holds any spend relation among three wallet
\* transactions, cycles and self-spends included.
InitWalk ==
    /\ chain = <<0>>
    /\ \E status \in [WalkTxs -> {"UNCONFIRMED", "CONFLICTED", "ABANDONED"}] :
          mapWallet = [t \in WalkTxs |-> WalkWalletTx(t, status[t])]
    /\ \E spenders \in [WalkTxs -> SUBSET WalkTxs] :
          mapTxSpends = [o \in OutPoints |->
                            IF o \in WalkTxs THEN SetToSeq(spenders[o]) ELSE << >>]
    /\ mapTxSproutNullifiers = [n \in SproutNullifiers |-> << >>]
    /\ mapTxSaplingNullifiers = [n \in SaplingNullifiers |-> << >>]
    /\ nOrderPosNext = 3
    /\ wtxOrdered = {<<t - 1, t>> : t \in WalkTxs}
    /\ haveKeys = FALSE
    /\ haveChangeKeys = FALSE
    /\ migration = NoMigration
    /\ unloading = NoUnloading
    /\ network = WalkTxs
    /\ nNow = 0
    /\ database = EmptyDatabase
    /\ NoSpending
    /\ \E kind \in {"MarkConflicted", "AbandonTransaction"}, hashTx \in WalkTxs :
          /\ kind = "AbandonTransaction" =>
                GetDepthInMainChain(chain, mapWallet[hashTx]) = 0
          /\ walk = [kind |-> kind, todo |-> {hashTx}, done |-> {},
                     taken |-> [t \in TxIds |-> 0]]
          /\ last = [op |-> kind, tx |-> hashTx, ret |-> FALSE, ok |-> TRUE]

NextWalk == MarkConflictedWalkStep \/ AbandonWalkStep

SpecWalk == InitWalk /\ [][NextWalk]_vars /\ WF_vars(NextWalk)

\* C5: the walks of MarkConflicted and AbandonTransaction terminate for
\* every SpendIndex content, cycles included, and take each transaction id
\* from the worklist at most once per call.
C5_WalkTerminates ==
    /\ [](\A t \in TxIds : walk.taken[t] <= 1)
    /\ <>(walk.todo = {})

\* A walk went round a 3-cycle of spends and has ended.
C5_Witness ==
    /\ walk.todo = {}
    /\ walk.done = WalkTxs
    /\ mapTxSpends[1] = <<2>> /\ mapTxSpends[2] = <<3>> /\ mapTxSpends[3] = <<1>>

\* ------------------------------------------------------------------------
\* Properties of the witness cache
\* ------------------------------------------------------------------------

Kinds == {"sprout", "sapling"}

\* The notes the wallet holds: <<txid, kind, outpoint>>.
WalletNotes ==
    {n \in TxIds \X Kinds \X {<<1, 1>>, <<2, 0>>} :
        n[1] \in DOMAIN mapWallet /\ n[3] \in DOMAIN NoteMap(mapWallet[n[1]], n[2])}

NoteData(n) == NoteMap(mapWallet[n[1]], n[2])[n[3]]

HasNullifier(n) == NoteData(n).nullifier # NoNullifier

\* C1: after any sequence of BuildWitnessCache and DecrementNoteWitnesses
\* calls, every note with a cached nullifier holds at most
\* WITNESS_CACHE_SIZE witnesses.
C1_WitnessBound ==
    \A n \in WalletNotes :
        HasNullifier(n) => Len(NoteData(n).witnesses) <= WITNESS_CACHE_SIZE

\* A note whose buffer is full and was trimmed: it was extended over at
\* least WITNESS_CACHE_SIZE blocks after the block of its transaction.
C1_Witness ==
    \E n \in WalletNotes :
        /\ HasNullifier(n)
        /\ Len(NoteData(n).witnesses) = WITNESS_CACHE_SIZE
        /\ isConfirmed(mapWallet[n[1]])
        /\ NoteData(n).witnessHeight >= Len(mapWallet[n[1]].hashBlock) + WITNESS_CACHE_SIZE

\* C2 as stated: once VerifyAndSetInitialWitness has returned (a block was
\* connected), the newest witness of every note of a confirmed wallet
\* transaction has the root the active chain records at the note's
\* witnessHeight.
C2_WitnessRootMatchesChain ==
    last.op = "ConnectBlock" =>
        \A n \in WalletNotes :
            (/\ GetDepthInMainChain(chain, mapWallet[n[1]]) > 0
             /\ Len(NoteData(n).witnesses) >= 1)
            => /\ NoteData(n).witnessHeight \in 0..Len(chain)
               /\ WitnessRoot(Head(NoteData(n).witnesses))
                    = BlockRoot(n[2], chain, NoteData(n).witnessHeight)

\* The last step connected a block and BuildWitnessCache(pindex, false) ran.
BuiltWitnessCache == last.op = "ConnectBlock" /\ last.ret

\* The note is one BuildWitnessCache extends: its transaction is confirmed
\* in the active chain and it is not spent deeper than the cache reaches.
Extendable(n) ==
    /\ HasNullifier(n)
    /\ GetDepthInMainChain(chain, mapWallet[n[1]]) > 0
    /\ GetSpendDepth(n[2], chain, W, NoteData(n).nullifier) <= WITNESS_CACHE_SIZE

\* C3 as stated: when BuildWitnessCache(pindex, witnessOnly = false) has
\* completed, every note with a cached nullifier has witnessHeight equal to
\* pindex->nHeight.
C3_AllNotesAtTip ==
    BuiltWitnessCache =>
        \A n \in WalletNotes :
            HasNullifier(n) => NoteData(n).witnessHeight = Len(chain)

\* C3, amended: when BuildWitnessCache(pindex, witnessOnly = false) has
\* completed, every note with a cached nullifier whose transaction has
\* depth > 0 and whose spend depth is at most WITNESS_CACHE_SIZE has
\* witnessHeight equal to pindex->nHeight, unless its witnessHeight was
\* above pindex->nHeight before the call (then it is left as it was).
C3_ExtendableNotesAtTip ==
    [][BuiltWitnessCache' =>
        \A n \in WalletNotes' :
            Extendable(n)' =>
                \/ NoteData(n)'.witnessHeight = Len(chain')
                \/ /\ n \in WalletNotes
                   /\ NoteData(n).witnessHeight > Len(chain')
                   /\ NoteData(n)' = NoteData(n)]_vars

\* BuildWitnessCache(pindex, false) has extended a note over more than one
\* block in one call, up to the tip.
C3_Witness ==
    /\ BuiltWitnessCache
    /\ \E n \in WalletNotes :
          /\ Extendable(n)
          /\ NoteData(n).witnessHeight = Len(chain)
          /\ Len(NoteData(n).witnesses) >= 2
          /\ Len(chain) >= Len(mapWallet[n[1]].hashBlock) + 2

\* ------------------------------------------------------------------------
\* Properties of the transaction ledger
\* ------------------------------------------------------------------------

\* Wallet transactions that spend, directly or through other wallet
\* transactions, a transparent output or a shielded note of a transaction
\* of S.
RECURSIVE WalletDescendants(_)
WalletDescendants(S) ==
    LET next == S \cup {t \in DOMAIN mapWallet : Parents(t) \cap S # {}}
    IN  IF next = S THEN S ELSE WalletDescendants(next)

\* MarkConflicted marked a in the step: it is Conflicted with a block it
\* was not Conflicted with before.
MarkedConflicted(a) ==
    /\ last'.op = "ConnectBlock"
    /\ a \in DOMAIN mapWallet
    /\ isConflicted(mapWallet'[a])
    /\ ~(isConflicted(mapWallet[a]) /\ mapWallet[a].hashBlock = mapWallet'[a].hashBlock)

\* C4 as stated: when MarkConflicted(H, A) marks A, every wallet
\* transaction that transitively spends a transparent output or a shielded
\* note (through its nullifier) of A is Conflicted once the call returned.
C4_DescendantsConflicted ==
    [][\A a \in TxIds :
          MarkedConflicted(a) =>
              \A d \in WalletDescendants({a})' : isConflicted(mapWallet'[d])]_vars

\* The status transition a step makes on wallet transaction t.
Transition(t) == <<mapWallet[t].status, mapWallet'[t].status>>

StatedTransitions ==
    {<<"UNCONFIRMED", "CONFIRMED">>, <<"CONFIRMED", "UNCONFIRMED">>,
     <<"UNCONFIRMED", "ABANDONED">>, <<"UNCONFIRMED", "CONFLICTED">>,
     <<"CONFIRMED", "CONFLICTED">>, <<"CONFLICTED", "UNCONFIRMED">>}

\* What AddToWallet, MarkConflicted and AbandonTransaction add to them.
CodeTransitions ==
    StatedTransitions \cup
    {<<"ABANDONED", "UNCONFIRMED">>, <<"ABANDONED", "CONFIRMED">>,
     <<"ABANDONED", "CONFLICTED">>, <<"CONFLICTED", "CONFIRMED">>,
     <<"CONFLICTED", "ABANDONED">>}

\* C6 as stated: a ledger event changes the status of a wallet transaction
\* only along Unconfirmed<->Confirmed, Unconfirmed->Abandoned,
\* Unconfirmed->Conflicted, Confirmed->Conflicted, Conflicted->Unconfirmed.
C6_StatedTransitionsOnly ==
    [][\A t \in DOMAIN mapWallet :
          mapWallet'[t].status # mapWallet[t].status => Transition(t) \in StatedTransitions]_vars

\* C6, amended: a ledger event changes the status of a wallet transaction
\* only along the stated transitions or along Abandoned->Unconfirmed,
\* Abandoned->Confirmed, Abandoned->Conflicted, Conflicted->Confirmed,
\* Conflicted->Abandoned; Confirmed->Abandoned is the one transition no
\* event makes, and no event removes a transaction from the wallet.
C6_CodeTransitionsOnly ==
    [][\A t \in DOMAIN mapWallet :
          /\ t \in DOMAIN mapWallet'
          /\ mapWallet'[t].status # mapWallet[t].status
                => Transition(t) \in CodeTransitions]_vars

\* AbandonTransaction was asked to abandon a transaction confirmed in the
\* active chain and left it Confirmed.
C6_Witness ==
    /\ last.op = "AbandonTransaction"
    /\ ~last.ret
    /\ isConfirmed(mapWallet[last.tx])
    /\ GetDepthInMainChain(chain, mapWallet[last.tx]) > 0
    /\ \E u \in DOMAIN mapWallet : isAbandoned(mapWallet[u])

\* The statuses of all wallet transactions are as before the step.
StatusesUnchanged ==
    /\ DOMAIN mapWallet' = DOMAIN mapWallet
    /\ \A u \in DOMAIN mapWallet : mapWallet'[u].status = mapWallet[u].status

\* C7 as stated: AbandonTransaction(T) returns false and changes no status
\* when T has depth > 0 or is in the mempool; for every other wallet
\* transaction T it returns true and T ends up Abandoned.
C7_AbandonOutcome ==
    [][last'.op = "AbandonTransaction" /\ Running =>
          LET T == last'.tx
          IN  IF GetDepthInMainChain(chain, mapWallet[T]) > 0 \/ InMempool(mapWallet[T])
              THEN ~last'.ret /\ last'.ok /\ StatusesUnchanged
              ELSE last'.ret /\ isAbandoned(mapWallet'[T])]_vars

\* Wallet transactions that spend, directly or through other wallet
\* transactions, a transparent output of a transaction of S.
RECURSIVE SpendDescendants(_)
SpendDescendants(S) ==
    LET next == S \cup {t \in DOMAIN mapWallet : vin(t) \cap S # {}}
    IN  IF next = S THEN S ELSE SpendDescendants(next)

\* C8: after a successful AbandonTransaction(T), every wallet transaction
\* that transitively spends an output of T and has depth 0 is Abandoned,
\* and no transaction outside that descendant set changes status.
C8_AbandonCascade ==
    [][last'.op = "AbandonTransaction" /\ last'.ret /\ Running =>
          LET T == last'.tx
          IN  /\ DOMAIN mapWallet' = DOMAIN mapWallet
              /\ \A d \in SpendDescendants({T}) :
                    GetDepthInMainChain(chain', mapWallet'[d]) = 0
                        => isAbandoned(mapWallet'[d])
              /\ \A u \in DOMAIN mapWallet \ SpendDescendants({T}) :
                    mapWallet'[u].status = mapWallet[u].status]_vars

\* A successful AbandonTransaction abandoned a transaction and the
\* transaction spending its output, and left the transaction it spends
\* from Unconfirmed.
C8_Witness ==
    /\ last.op = "AbandonTransaction" /\ last.ret
    /\ last.tx = 2
    /\ {1, 2, 5} \subseteq DOMAIN mapWallet
    /\ isAbandoned(mapWallet[2]) /\ isAbandoned(mapWallet[5])
    /\ isUnconfirmed(mapWallet[1])

\* The registered spenders of an outpoint or nullifier that the wallet holds.
Registered(range) == SeqRange(range) \cap DOMAIN mapWallet

\* The spent test as the claim states it.
StatedSpent(range) ==
    \E s \in Registered(range) :
        /\ ~isConflicted(mapWallet[s]) /\ ~isAbandoned(mapWallet[s])
        /\ \/ GetDepthInMainChain(chain, mapWallet[s]) > 0
           \/ GetDepthInMainChain(chain, mapWallet[s]) = 0 /\ InMempool(mapWallet[s])

\* The spent test in terms of status: some registered spender is neither
\* Abandoned nor Conflicted with a block of the active chain.
LiveSpender(range) ==
    \E s \in Registered(range) :
        /\ ~isAbandoned(mapWallet[s])
        /\ ~(isConflicted(mapWallet[s]) /\ InActiveChain(chain, mapWallet[s].hashBlock))

\* C9 as stated: IsSpent, IsSproutSpent and IsSaplingSpent are true exactly
\* when a registered spender is neither conflicted nor abandoned and has
\* depth > 0, or has depth 0 and is in the mempool.
C9_SpentAsStated ==
    /\ \A o \in OutPoints :
          IsSpent(chain, mapWallet, mapTxSpends, o) <=> StatedSpent(mapTxSpends[o])
    /\ \A n \in SproutNullifiers :
          IsSproutSpent(chain, mapWallet, mapTxSproutNullifiers, n)
              <=> StatedSpent(mapTxSproutNullifiers[n])
    /\ \A n \in SaplingNullifiers :
          IsSaplingSpent(chain, mapWallet, mapTxSaplingNullifiers, n)
              <=> StatedSpent(mapTxSaplingNullifiers[n])

\* C9, amended: IsSpent, IsSproutSpent and IsSaplingSpent are true exactly
\* when a registered spender is not Abandoned and is not Conflicted with a
\* block of the active chain; whether a depth-0 spender is in the mempool
\* plays no part.
C9_SpentByLiveSpender ==
    /\ \A o \in OutPoints :
          IsSpent(chain, mapWallet, mapTxSpends, o) <=> LiveSpender(mapTxSpends[o])
    /\ \A n \in SproutNullifiers :
          IsSproutSpent(chain, mapWallet, mapTxSproutNullifiers, n)
              <=> LiveSpender(mapTxSproutNullifiers[n])
    /\ \A n \in SaplingNullifiers :
          IsSaplingSpent(chain, mapWallet, mapTxSaplingNullifiers, n)
              <=> LiveSpender(mapTxSaplingNullifiers[n])

\* An outpoint and a Sapling nullifier are spent by transactions of depth 0
\* that are not in the mempool, next to an outpoint whose only spender is
\* Abandoned.
C9_Witness ==
    /\ \E n \in SaplingNullifiers :
          /\ IsSaplingSpent(chain, mapWallet, mapTxSaplingNullifiers, n)
          /\ \A s \in Registered(mapTxSaplingNullifiers[n]) :
                /\ GetDepthInMainChain(chain, mapWallet[s]) = 0
                /\ ~InMempool(mapWallet[s])
    /\ \E o \in OutPoints :
          /\ Registered(mapTxSpends[o]) # {}
          /\ ~IsSpent(chain, mapWallet, mapTxSpends, o)

\* C10: AddToWallet called a second time with a WalletTx identical to the
\* stored one changes nothing: status, order position, smart time,
\* wtxOrdered and the three SpendIndex maps are as before, and no
\* transaction record is written.
C10_ReinsertUnchanged ==
    [][last'.op = "AddToWallet" /\ Running =>
          /\ ~last'.ret
          /\ last'.ok
          /\ mapWallet' = mapWallet
          /\ wtxOrdered' = wtxOrdered
          /\ nOrderPosNext' = nOrderPosNext
          /\ mapTxSpends' = mapTxSpends
          /\ mapTxSproutNullifiers' = mapTxSproutNullifiers
          /\ mapTxSaplingNullifiers' = mapTxSaplingNullifiers]_vars

\* AddToWallet was called again, later than the first time, for a confirmed
\* transaction that spends an output and holds a note with witnesses.
C10_Witness ==
    /\ last.op = "AddToWallet"
    /\ last.tx = 2
    /\ isConfirmed(mapWallet[2])
    /\ Len(mapWallet[2].mapSproutNoteData[<<2, 0>>].witnesses) > 0
    /\ mapTxSpends[1] = <<2>>
    /\ nNow > mapWallet[2].nTimeReceived

\* ------------------------------------------------------------------------
\* C11
\* ------------------------------------------------------------------------

\* No wallet transaction is entered twice in the range.
NoDuplicates(range) ==
    \A i, j \in 1..Len(range) : i # j => range[i] # range[j]

\* C11 as stated: after any sequence of AddToWallet and LoadToWallet calls
\* no SpendIndex map holds the same (spend-key, wtxid) pair more than once.
C11_NoDuplicateSpends ==
    /\ \A o \in OutPoints : NoDuplicates(mapTxSpends[o])
    /\ \A n \in SproutNullifiers : NoDuplicates(mapTxSproutNullifiers[n])
    /\ \A n \in SaplingNullifiers : NoDuplicates(mapTxSaplingNullifiers[n])

\* ------------------------------------------------------------------------
\* C12
\* ------------------------------------------------------------------------

\* The file once every record of a flush of the present wallet is in it.
FlushedAll ==
    LET written == {t \in DOMAIN mapWallet : HasNoteData(mapWallet[t])}
    IN  [tx |-> [t \in DOMAIN database.tx \cup written |->
                    IF t \in written THEN [mapWallet[t] EXCEPT !.fInMempool = FALSE]
                    ELSE database.tx[t]],
         witnesscachesize |-> nWitnessCacheSize,
         bestblock |-> chain]

\* C12: ChainStateFlushed is all-or-nothing: after it returns the file
\* holds every record of the flush (all note-bearing transactions, the
\* witness-cache size, the best-block locator) or is as it was before.
C12_FlushAllOrNothing ==
    [][last'.op = "ChainStateFlushed" =>
          \/ database' = database
          \/ database' = FlushedAll]_vars

\* A flush failed at the WriteTx of transaction 2 after the WriteTx of
\* transaction 1 had succeeded, while the file was behind the wallet.
C12_Witness ==
    /\ last.op = "ChainStateFlushed"
    /\ ~last.ret
    /\ last.tx = 2
    /\ 1 \in DOMAIN mapWallet /\ HasNoteData(mapWallet[1])
    /\ database # FlushedAll
    /\ database.bestblock # chain

\* ------------------------------------------------------------------------
\* C13
\* ------------------------------------------------------------------------

\* The notes of the map `after` that had witnesses in `before` have the
\* same witnesses and the same witnessHeight.
WitnessesKept(before, after) ==
    \A op \in DOMAIN before :
        Len(before[op].witnesses) > 0 =>
            /\ op \in DOMAIN after
            /\ after[op].witnesses = before[op].witnesses
            /\ after[op].witnessHeight = before[op].witnessHeight

\* C13: when AddToWallet updates a stored transaction, a note whose stored
\* witness buffer is non-empty keeps the buffer and its witnessHeight,
\* whatever note data the incoming copy carries.
C13_StoredWitnessesKept ==
    [][last'.op \in {"AddToWallet", "AddToWalletCopy"} =>
          LET T == last'.tx
          IN  /\ T \in DOMAIN mapWallet'
              /\ WitnessesKept(mapWallet[T].mapSproutNoteData,
                               mapWallet'[T].mapSproutNoteData)
              /\ WitnessesKept(mapWallet[T].mapSaplingNoteData,
                               mapWallet'[T].mapSaplingNoteData)]_vars

\* AddToWallet updated transaction 1 from a copy carrying freshly built
\* note data: the Sapling note has no cached nullifier any more and still
\* has its witnesses.
C13_Witness ==
    /\ last.op = "AddToWalletCopy" /\ last.ret
    /\ last.tx = 1
    /\ mapWallet[1].mapSaplingNoteData[<<1, 1>>].nullifier = NoNullifier
    /\ Len(mapWallet[1].mapSaplingNoteData[<<1, 1>>].witnesses) > 1

\* ------------------------------------------------------------------------
\* C14, C15
\* ------------------------------------------------------------------------

\* C14: DecrementNoteWitnesses never empties a witness buffer: a note that
\* had at least one witness before a block was disconnected has at least
\* one afterwards.
C14_LastWitnessKept ==
    [][last'.op = "DisconnectBlock" =>
          \A n \in WalletNotes :
              Len(NoteData(n).witnesses) > 0 =>
                  /\ n \in WalletNotes'
                  /\ Len(NoteData(n)'.witnesses) > 0]_vars

\* The block a note's only witness was made for has been disconnected: the
\* note has a cached nullifier, one witness and a witnessHeight above the tip.
C14_Witness ==
    /\ last.op = "DisconnectBlock"
    /\ \E n \in WalletNotes :
          /\ HasNullifier(n)
          /\ Len(NoteData(n).witnesses) = 1
          /\ NoteData(n).witnessHeight = Len(chain) + 1

\* C15 as stated: the k-th witness of a note, newest first from k = 0, is
\* the witness valid at height witnessHeight - k of the active chain.
C15_ContiguousWitnesses ==
    \A n \in WalletNotes :
        \A k \in 0..(Len(NoteData(n).witnesses) - 1) :
            /\ NoteData(n).witnessHeight - k \in 0..Len(chain)
            /\ WitnessRoot(NoteData(n).witnesses[k + 1])
                 = BlockRoot(n[2], chain, NoteData(n).witnessHeight - k)

\* ------------------------------------------------------------------------
\* C16: the fee and change loop of CreateTransaction
\* ------------------------------------------------------------------------

ExactFits(v) ==
    LET vCoins == AvailableCoins(coins, setLockedCoins, TRUE)
        eligible == {i \in vCoins :
                        EligibleForSpending(coins[i], Filters(policy)[create.filter])}
    IN  {S \in SUBSET PositiveOnly(coins, eligible, policy.feeRate) :
            S # {} /\ SumEffective(coins, S, policy.feeRate) = v}

OneCoinOfHundred ==
    /\ Len(coins) = 1
    /\ coins[1].nValue = 100
    /\ AvailableCoins(coins, setLockedCoins, FALSE) = {1}
    /\ policy.feeRate = 1
    /\ policy.dustRelayFee = 0
    /\ GetReservedDestination(keyPool, TRUE).ok

\* The call that sends 40 to an address of somebody else and leaves the
\* place of the change to the wallet or names one there is.
SendsForty(call) ==
    /\ call.vecSend = <<Recipient(40, FALSE)>>
    /\ call.nChangePosRequest \in {-1, 0, 1}

\* C18: with one spendable coin of 100, sending 40 to X at a fee of 1 makes
\* CreateTransaction take that coin as the only input and produce two
\* outputs, 40 to X and 59 to a change key of the wallet, with fee 1; and
\* GetAmounts of the committed transaction lists the 40 as sent and lists
\* nothing, the change included, as received.
C18_SendFortyOfHundred ==
    [][/\ (/\ last'.op = "CreateTransaction"
           /\ OneCoinOfHundred
           /\ SendsForty(create'))
          => /\ create'.ret
             /\ create'.vin = {1}
             /\ create'.nFeeRet = 1
             /\ Len(create'.vout) = 2
             /\ \E i, j \in 1 .. 2 :
                    /\ i # j
                    /\ create'.vout[i].nValue = 40
                    /\ create'.vout[i].dest = Dest("theirs", 0)
                    /\ create'.vout[j].nValue = 59
                    /\ create'.vout[j].dest.kind = "pool"
                    /\ IsChange(create'.vout[j])
                    /\ create'.nChangePosInOut = j - 1
       /\ (/\ last'.op = "CommitTransaction"
           /\ coins[1].nValue = 100
           /\ policy.feeRate = 1
           /\ SendsForty(create))
          => LET amounts == GetAmounts(create'.vout,
                                      GetDebit(coins', create'.vin))
             IN  /\ amounts.listReceived = {}
                 /\ \E e \in amounts.listSent :
                        /\ amounts.listSent = {e}
                        /\ e.nValue = 40
                        /\ e.dest = Dest("theirs", 0)
      ]_vars

\* The transaction that sends 40 of the coin of 100 was committed: the coin
\* is spent and the change of 59 is a coin of the wallet.
C18_Witness ==
    /\ create.phase = "committed"
    /\ SendsForty(create)
    /\ policy.feeRate = 1
    /\ create.nFeeRet = 1
    /\ Len(coins) = 2
    /\ coins[1].nValue = 100
    /\ coins[1].fSpent
    /\ coins[2].nValue = 59

\* ------------------------------------------------------------------------
\* C19: the reasons of a failed coin selection
\* ------------------------------------------------------------------------

SelectionFailures ==
    {"Coinbase funds can only be sent to a zaddr",
     "Insufficient funds, coinbase funds can only be spent after they have been sent to a zaddr",
     "Insufficient funds"}

\* The reason the three cases give for a selection that failed for the
\* target: only coinbase coins are available under the shielding policy;
\* the coins without the coinbase ones are worth less than the target and
\* the coins with them are worth the target; every other case.
ReasonOfCases(nTargetValue) ==
    LET noCoinbase == AvailableCoins(coins, setLockedCoins, FALSE)
        withCoinbase == AvailableCoins(coins, setLockedCoins, TRUE)
    IN  IF /\ policy.fCoinbaseMustBeShielded
           /\ noCoinbase = {}
           /\ withCoinbase # {}
        THEN "Coinbase funds can only be sent to a zaddr"
        ELSE IF /\ policy.fCoinbaseMustBeShielded
                /\ SumValues(coins, noCoinbase) < nTargetValue
                /\ SumValues(coins, withCoinbase) >= nTargetValue
        THEN "Insufficient funds, coinbase funds can only be spent after they have been sent to a zaddr"
        ELSE "Insufficient funds"

\* The target of the pass in which the selection of a returned call failed.
FailedTarget(call) ==
    SumAmounts(call.vecSend)
    + (IF SubtractFrom(call.vecSend) = {} THEN call.nFeeRet ELSE 0)

PolicyViolations ==
    SelectionFailures
    \cup {"Transaction amount too small",
          "The transaction amount is too small to pay the fee",
          "The transaction amount is too small to send after the fee has been deducted",
          "Change index out of range",
          "Fee exceeds maximum configured by -maxtxfee"}

\* The three sets of the key pool.
KeyPoolSets(kp) ==
    <<kp.setInternalKeyPool, kp.setExternalKeyPool, kp.set_pre_split_keypool>>

\* The step is a call of CreateTransaction that failed with a policy
\* violation.
FailsWithPolicyViolation ==
    /\ last'.op = "CreateTransaction"
    /\ ~create'.ret
    /\ create'.strFailReason \in PolicyViolations

\* C20: when CreateTransaction fails with a policy violation, mapWallet, the
\* spend indexes, the locked coins and the three sets of the key pool are as
\* before the call, and the change key reserved during the attempt is in the
\* key pool again.
C20_FailedCallLeavesWallet ==
    [][FailsWithPolicyViolation
       => /\ mapWallet' = mapWallet
          /\ mapTxSpends' = mapTxSpends
          /\ mapTxSproutNullifiers' = mapTxSproutNullifiers
          /\ mapTxSaplingNullifiers' = mapTxSaplingNullifiers
          /\ coins' = coins
          /\ setLockedCoins' = setLockedCoins
          /\ KeyPoolSets(keyPool') = KeyPoolSets(keyPool)
          /\ create'.reserved \in keyPool'.setInternalKeyPool
                                  \cup keyPool'.setExternalKeyPool
                                  \cup keyPool'.set_pre_split_keypool
      ]_vars

\* ------------------------------------------------------------------------
\* C25: what DecrementNoteWitnesses removes
\* ------------------------------------------------------------------------

\* The wallet as DecrementNoteWitnesses finds it when the tip is
\* disconnected: after BlockDisconnected, on the chain without the tip.
BeforeDecrement ==
    BlockDisconnected(SubSeq(chain, 1, Len(chain) - 1), W, nNow, haveKeys,
                      chain[Len(chain)]).w

\* The data of note n in the wallet state w.
NoteDataIn(w, n) == NoteMap(w.mapWallet[n[1]], n[2])[n[3]]

\* The notes DecrementNoteWitnesses acts on when the tip is disconnected:
\* those with a cached nullifier that is not spent deeper than the cache,
\* a witnessHeight not above the tip and at least two witnesses.
Decremented ==
    {n \in WalletNotes :
        LET nd == NoteDataIn(BeforeDecrement, n)
        IN  /\ nd.nullifier # NoNullifier
            /\ GetSpendDepth(n[2], SubSeq(chain, 1, Len(chain) - 1),
                             BeforeDecrement, nd.nullifier) <= WITNESS_CACHE_SIZE
            /\ nd.witnessHeight <= Len(chain)
            /\ Len(nd.witnesses) >= 2}

\* C25: DecrementNoteWitnesses for a disconnected block of height h removes,
\* from every eligible note whose buffer holds at least two entries, exactly
\* one entry, the newest one (the front of the buffer), and sets that note's
\* witnessHeight to h - 1.
C25_NewestWitnessRemoved ==
    [][last'.op = "DisconnectBlock" =>
          \A n \in Decremented :
              LET nd == NoteDataIn(BeforeDecrement, n)
              IN  /\ NoteData(n)'.witnesses = Tail(nd.witnesses)
                  /\ NoteData(n)'.witnessHeight = Len(chain) - 1]_vars

\* A block with commitments was disconnected and a note lost the witness
\* made for it: the witness left is older, and differs from the one removed.
C25_Witness ==
    /\ last.op = "DisconnectBlock"
    /\ \E n \in WalletNotes :
          /\ HasNullifier(n)
          /\ Len(NoteData(n).witnesses) = 1
          /\ NoteData(n).witnessHeight = Len(chain)
          /\ WitnessRoot(NoteData(n).witnesses[1]) = BlockRoot(n[2], chain, Len(chain))
          /\ Len(chain) > Len(mapWallet[n[1]].hashBlock)
          /\ isConfirmed(mapWallet[n[1]])

\* C25 as stated: the entry removed is the oldest one.
C25_OldestWitnessRemoved ==
    [][last'.op = "DisconnectBlock" =>
          \A n \in Decremented :
              LET nd == NoteDataIn(BeforeDecrement, n)
              IN  /\ NoteData(n)'.witnesses
                        = SubSeq(nd.witnesses, 1, Len(nd.witnesses) - 1)
                  /\ NoteData(n)'.witnessHeight = Len(chain) - 1]_vars

\* ------------------------------------------------------------------------
\* C26: the rebuild path of VerifyAndSetInitialWitness
\* ------------------------------------------------------------------------

\* The wallet as VerifyAndSetInitialWitness finds it when the block that
\* is the tip after the step was connected: after BlockConnected.
BeforeVerify ==
    BlockConnected(chain', W, nNow, haveKeys, chain'[Len(chain')]).w

\* The wallet as VerifyAndSetInitialWitness leaves it in that step.
AfterVerify ==
    VerifyAndSetInitialWitness(chain', BeforeVerify, Len(chain'),
                               ~last'.ret).wallet

\* The notes for which VerifyAndSetInitialWitness takes the rebuild path in
\* the step: notes of a confirmed transaction that have no nullifier, no
\* witness or no witnessHeight above 0, or whose newest witness is not
\* validated, is below the tip and has another root than the block of its
\* height.
Rebuilt ==
    {n \in TxIds \X Kinds \X {<<1, 1>>, <<2, 0>>} :
        /\ n[1] \in DOMAIN BeforeVerify.mapWallet
        /\ n[3] \in DOMAIN NoteMap(BeforeVerify.mapWallet[n[1]], n[2])
        /\ GetDepthInMainChain(chain', BeforeVerify.mapWallet[n[1]]) > 0
        /\ LET nd == NoteDataIn(BeforeVerify, n)
           IN  \/ nd.nullifier = NoNullifier
               \/ Len(nd.witnesses) = 0
               \/ nd.witnessHeight <= 0
               \/ /\ ~nd.witnessRootValidated
                  /\ nd.witnessHeight <= Len(chain') - 1
                  /\ WitnessRoot(Head(nd.witnesses))
                        # BlockRoot(n[2], chain', nd.witnessHeight)}

\* The nullifier of note n computed anew from the witness wit.
RecomputedNullifier(n, wit) ==
    IF n[2] = "sapling" THEN SaplingNf(n[3], wit.position) ELSE SproutNf(n[3])

\* C26: after VerifyAndSetInitialWitness took the rebuild path for a note,
\* the note has exactly one witness, its witnessHeight is the height of the
\* block that confirmed its transaction, and its cached nullifier is the
\* one computed anew from that witness.
C26_RebuiltNote ==
    [][last'.op = "ConnectBlock" =>
          \A n \in Rebuilt :
              LET nd == NoteMap(AfterVerify[n[1]], n[2])[n[3]]
              IN  /\ Len(nd.witnesses) = 1
                  /\ nd.witnessHeight
                        = Len(BeforeVerify.mapWallet[n[1]].hashBlock)
                  /\ nd.nullifier = RecomputedNullifier(n, nd.witnesses[1])
                  /\ (~last'.ret => NoteData(n)' = nd)]_vars

\* A block was connected during initial block download and the witness of
\* a note confirmed in a block below it was rebuilt: the note has one
\* witness, made for the block of its transaction, and its nullifier.
C26_Witness ==
    /\ last.op = "ConnectBlock"
    /\ ~last.ret
    /\ \E n \in WalletNotes :
          /\ isConfirmed(mapWallet[n[1]])
          /\ Len(mapWallet[n[1]].hashBlock) < Len(chain)
          /\ Len(NoteData(n).witnesses) = 1
          /\ ~NoteData(n).witnessRootValidated
          /\ NoteData(n).witnessHeight = Len(mapWallet[n[1]].hashBlock)
          /\ NoteData(n).nullifier = RecomputedNullifier(n, NoteData(n).witnesses[1])

\* ------------------------------------------------------------------------
\* C28: the conflicting block of a conflicted transaction is disconnected
\* ------------------------------------------------------------------------

\* The wallet transactions recorded as conflicted with the tip.
ConflictedWithTip ==
    {t \in DOMAIN mapWallet :
        /\ isConflicted(mapWallet[t])
        /\ Len(chain) > 0
        /\ mapWallet[t].hashBlock = HashAt(chain, Len(chain))}

\* C28: when the block recorded as the conflicting block of a Conflicted
\* wallet transaction is disconnected from the active chain, the depth of
\* the transaction goes from negative to 0, the depth of an unconfirmed
\* transaction, while its recorded status stays Conflicted with the hash of
\* that block.
C28_ConflictedDepthZero ==
    [][last'.op = "DisconnectBlock" =>
          \A t \in ConflictedWithTip :
              /\ GetDepthInMainChain(chain, mapWallet[t]) < 0
              /\ GetDepthInMainChain(chain', mapWallet'[t]) = 0
              /\ isConflicted(mapWallet'[t])
              /\ mapWallet'[t].hashBlock = mapWallet[t].hashBlock]_vars

\* The block a wallet transaction is recorded as conflicted with has just
\* been disconnected.
C28_Witness ==
    /\ last.op = "DisconnectBlock"
    /\ \E t \in DOMAIN mapWallet :
          /\ isConflicted(mapWallet[t])
          /\ Len(mapWallet[t].hashBlock) = Len(chain) + 1
          /\ SubSeq(mapWallet[t].hashBlock, 1, Len(chain)) = chain
          /\ GetDepthInMainChain(chain, mapWallet[t]) = 0

\* C28 as stated: the status of the transaction is Unconfirmed afterwards.
C28_StatusUnconfirmed ==
    [][last'.op = "DisconnectBlock" =>
          \A t \in ConflictedWithTip : isUnconfirmed(mapWallet'[t])]_vars

\* ------------------------------------------------------------------------
\* C29: the cached nullifier of a note whose transaction is not confirmed
\* ------------------------------------------------------------------------

\* C29: a note's cached nullifier is absent whenever its transaction is not
\* confirmed in the active chain: on first sight in the mempool, and again
\* after the block that confirmed the transaction has been disconnected.
C29_NoNullifierUnlessConfirmed ==
    \A n \in WalletNotes :
        GetDepthInMainChain(chain, mapWallet[n[1]]) <= 0 => ~HasNullifier(n)

\* ------------------------------------------------------------------------
\* C30: the cascade of eligibility levels of SelectCoins
\* ------------------------------------------------------------------------

\* The selections the pass of level k can return for the call.
LevelSelections(k) ==
    SelectCoinsMinConf(coins, AvailableCoins(coins, setLockedCoins, TRUE),
                       policy, create.nTargetValue, Filters(policy)[k],
                       create.use_bnb, OneRecipientSize).sel

\* Level k admits coins without a confirmation; it is the level without a
\* limit on the ancestors.
AdmitsZeroConf(k) ==
    Filters(policy)[k].conf_mine = 0 \/ Filters(policy)[k].conf_theirs = 0

IsUnlimitedLevel(k) == Filters(policy)[k].max_ancestors = UnlimitedAncestors

\* The levels SelectCoins may try under the settings of the wallet.
LevelsAllowed ==
    {k \in DOMAIN Filters(policy) :
        /\ AdmitsZeroConf(k) => policy.m_spend_zero_conf_change
        /\ IsUnlimitedLevel(k) => ~policy.fRejectLongChains}

\* The levels are ordered from strict to permissive: a coin eligible at a
\* level is eligible at every later one.
StrictToPermissive ==
    \A k \in DOMAIN Filters(policy) : \A j \in 1 .. k - 1 :
        \A i \in DOMAIN coins :
            EligibleForSpending(coins[i], Filters(policy)[j])
                => EligibleForSpending(coins[i], Filters(policy)[k])

\* C30: SelectCoins tries the eligibility levels in one fixed order from
\* strict to permissive and returns the selection of the first level that
\* reaches the target; no level that admits 0-confirmation coins is tried
\* when zero-conf change spending is disabled, and the unlimited-ancestor
\* level is tried only when long mempool chains are not rejected.
C30_FirstLevelWins ==
    create.phase = "cascaded" =>
        LET reached == {k \in LevelsAllowed : LevelSelections(k) # {}}
        IN  /\ StrictToPermissive
            /\ create.ok <=> reached # {}
            /\ create.ok =>
                  \E k \in reached :
                      /\ \A j \in reached : k <= j
                      /\ [setCoinsRet |-> create.setCoinsRet,
                          nValueRet |-> create.nValueRet] \in LevelSelections(k)

\* A selection was made at the level without a limit on the ancestors, of
\* a coin at the end of a chain longer than the package limit, after every
\* stricter level had failed.
C30_Witness ==
    /\ create.phase = "cascaded"
    /\ create.ok
    /\ policy.m_spend_zero_conf_change
    /\ ~policy.fRejectLongChains
    /\ \E i \in create.setCoinsRet :
          coins[i].ancestors > policy.limit_ancestor_count
    /\ \A k \in 1 .. 6 : LevelSelections(k) = {}
    /\ LevelSelections(7) # {}

\* ------------------------------------------------------------------------
\* ScanForWalletTransactions, statement by statement.  The scanning thread
\* takes the chain lock and cs_wallet for one block at a time, so the node
\* and the other threads run between its steps; fAbortRescan is an atomic
\* written without a lock.  block_height is -1 when the Optional is empty.
\* ------------------------------------------------------------------------

\* WalletRescanReserver::reserve() succeeded and ScanForWalletTransactions
\* was called with these blocks; the statements up to the reset of
\* fAbortRescan have not run yet.
ReservedScan(s, start_block, stop_block) ==
    [pc |-> "reserved", start_block |-> start_block, stop_block |-> stop_block,
     block_hash |-> NullHash, block_height |-> -1,
     fAbortRescan |-> FALSE, shutdownRequested |-> FALSE,
     status |-> "SUCCESS", last_scanned_block |-> NullHash,
     last_scanned_height |-> -1, last_failed_block |-> NullHash,
     height |-> 0, pindexHeight |-> 0, nodeEvents |-> 0,
     requested |-> FALSE, processed |-> {}, unread |-> {}]

\* The loop condition.
ScanContinues(s) ==
    s.block_height # -1 /\ ~s.fAbortRescan /\ ~s.shutdownRequested

\* The loop condition is evaluated: into the body, or out of the loop.
ScanLoopTest(s) ==
    [s EXCEPT !.pc = IF ScanContinues(s) THEN "block" ELSE "witness"]

\* The statements before the loop, and its condition: the flag is reset,
\* the height of the start block is read under the chain lock.
ScanBegin(c, s) ==
    ScanLoopTest([s EXCEPT !.block_hash = s.start_block,
                           !.fAbortRescan = FALSE,
                           !.block_height = IF InActiveChain(c, s.start_block)
                                            THEN Len(s.start_block) ELSE -1])

\* The else branch that forgets to record the block it could not read.
CouldNotScanUnrecorded(s) ==
    [s EXCEPT !.status = "FAILURE", !.unread = @ \cup {s.block_hash}]

\* The block could not be read: keep scanning, record it as the most
\* recent failure.
CouldNotScan(s) ==
    [s EXCEPT !.last_failed_block = s.block_hash, !.status = "FAILURE",
              !.unread = @ \cup {s.block_hash}]

\* SyncTransaction for each transaction of the block: [w, ok].
SyncTransactions(c, w, now, keys, block_hash) ==
    IF block_hash[Len(block_hash)] = 0
    THEN [w |-> w, ok |-> TRUE]
    ELSE AddToWalletIfInvolvingMe(c, w, now, keys, block_hash[Len(block_hash)],
                                  "CONFIRMED", block_hash, 0)

\* After the transactions of the block were synced with result r: the
\* initial witnesses are built, the block is recorded as scanned.
ScanProcessed(c, s, r) ==
    [w |-> BuildWitnessCache(c, r.w, s.block_height, TRUE),
     s |-> [s EXCEPT !.last_scanned_block = s.block_hash,
                     !.last_scanned_height = s.block_height,
                     !.processed = @ \cup {s.block_hash},
                     !.pc = "advance"],
     ok |-> r.ok]

\* The body of the loop up to the stop-block test, for a block findBlock
\* returns (found) or not: [w, s, ok].
ScanOneBlock(c, w, now, keys, s, found) ==
    IF ~found
    THEN [w |-> w, s |-> [CouldNotScan(s) EXCEPT !.pc = "advance"], ok |-> TRUE]
    ELSE IF ~InActiveChain(c, s.block_hash)
    THEN [w |-> w,
          s |-> [s EXCEPT !.last_failed_block = s.block_hash,
                          !.status = "FAILURE", !.pc = "witness"],
          ok |-> TRUE]
    ELSE ScanProcessed(c, s, SyncTransactions(c, w, now, keys, s.block_hash))

\* The end of the loop body: the stop-block test, the tip test, the step
\* to the next block of the active chain, and the loop condition.
ScanAdvance(c, s) ==
    IF s.block_hash = s.stop_block
    THEN [s EXCEPT !.pc = "witness"]
    ELSE IF Len(c) <= s.block_height \/ ~InActiveChain(c, s.block_hash)
    THEN [s EXCEPT !.pc = "witness"]
    ELSE ScanLoopTest([s EXCEPT !.block_height = @ + 1,
                                !.block_hash = HashAt(c, s.block_height + 1)])

\* BuildWitnessCache(::ChainActive().Tip(), false) up to its loop: [w, s].
ScanCatchUpFrom(w, s, v, pindexHeight) ==
    [w |-> [w EXCEPT !.mapWallet = v.wallet],
     s |-> IF v.min + 1 > pindexHeight
           THEN [s EXCEPT !.pc = "status"]
           ELSE [s EXCEPT !.pc = "catchup", !.height = v.min + 1,
                          !.pindexHeight = pindexHeight],
     ok |-> TRUE]

ScanCatchUpBegin(c, w, s) ==
    ScanCatchUpFrom(w, s, VerifyAndSetInitialWitness(c, w, Len(c), FALSE), Len(c))

\* One iteration of the loop of BuildWitnessCache: [w, s].
ScanCatchUpBlock(c, w, s) ==
    [w |-> [w EXCEPT !.mapWallet = ExtendWallet(c, w, w.mapWallet, s.height)],
     s |-> IF s.height = s.pindexHeight \/ s.height + 1 > Len(c)
           THEN [s EXCEPT !.pc = "status"]
           ELSE [s EXCEPT !.height = @ + 1],
     ok |-> TRUE]

\* The statements after the catch-up: the status returned.
ScanReturn(s) ==
    [s EXCEPT !.pc = "done",
              !.status = IF s.block_height # -1 /\ s.fAbortRescan THEN "USER_ABORT"
                         ELSE IF s.block_height # -1 /\ s.shutdownRequested
                         THEN "USER_ABORT"
                         ELSE s.status]

ScanOp(op, ok) == [op |-> op, tx |-> 0, ret |-> FALSE, ok |-> ok]

\* The step op of the scanning thread leaves wallet r.w and scan state r.s.
ScanStepDone(op, r) ==
    /\ SetW(r.w)
    /\ scan' = r.s
    /\ last' = ScanOp(op, r.ok)

WalletUnchanged ==
    UNCHANGED <<mapWallet, mapTxSpends, mapTxSproutNullifiers,
                mapTxSaplingNullifiers, nOrderPosNext, wtxOrdered>>

ScanFrame == UNCHANGED <<chain, haveKeys, haveChangeKeys, migration, unloading, threads, network, nNow, walk, untouched>>

\* A rescan is reserved and ScanForWalletTransactions called for blocks of
\* the active chain (rescanblockchain start_height stop_height).
ReserveScan ==
    /\ Running
    /\ scan.pc = "idle"
    /\ \E start \in 1 .. Len(chain) :
       \E stop \in {0, Len(chain)} :
           scan' = ReservedScan(scan, HashAt(chain, start),
                                IF stop = 0 THEN NullHash ELSE HashAt(chain, stop))
    /\ last' = ScanOp("reserve", TRUE)
    /\ WalletUnchanged
    /\ ScanFrame

\* CWallet::AbortRescan(), from another thread while the wallet is scanning.
AbortRescan ==
    /\ Running
    /\ scan.pc \notin {"idle", "done"}
    /\ ~scan.fAbortRescan
    /\ scan' = [scan EXCEPT !.fAbortRescan = TRUE, !.requested = TRUE]
    /\ last' = ScanOp("AbortRescan", TRUE)
    /\ WalletUnchanged
    /\ ScanFrame

\* The node is asked to shut down while the wallet is scanning.
RequestShutdown ==
    /\ Running
    /\ scan.pc \notin {"idle", "done"}
    /\ ~scan.shutdownRequested
    /\ scan' = [scan EXCEPT !.shutdownRequested = TRUE, !.requested = TRUE]
    /\ last' = ScanOp("StartShutdown", TRUE)
    /\ WalletUnchanged
    /\ ScanFrame

ScanBeginStep ==
    /\ Running
    /\ scan.pc = "reserved"
    /\ scan' = ScanBegin(chain, scan)
    /\ last' = ScanOp("ScanBegin", TRUE)
    /\ WalletUnchanged
    /\ ScanFrame

ScanBlockStep ==
    /\ Running
    /\ scan.pc = "block"
    /\ \E found \in BOOLEAN :
          ScanStepDone(IF found THEN "ScanBlock" ELSE "ScanBlockUnread",
                       ScanOneBlock(chain, W, nNow, haveKeys, scan, found))
    /\ ScanFrame

ScanAdvanceStep ==
    /\ Running
    /\ scan.pc = "advance"
    /\ scan' = ScanAdvance(chain, scan)
    /\ last' = ScanOp("ScanAdvance", TRUE)
    /\ WalletUnchanged
    /\ ScanFrame

ScanCatchUpBeginStep ==
    /\ Running
    /\ scan.pc = "witness"
    /\ ScanStepDone("BuildWitnessCache", ScanCatchUpBegin(chain, W, scan))
    /\ ScanFrame

ScanCatchUpBlockStep ==
    /\ Running
    /\ scan.pc = "catchup"
    /\ ScanStepDone("BuildWitnessCacheBlock", ScanCatchUpBlock(chain, W, scan))
    /\ ScanFrame

ScanReturnStep ==
    /\ Running
    /\ scan.pc = "status"
    /\ scan' = ScanReturn(scan)
    /\ last' = ScanOp("ScanReturn", TRUE)
    /\ WalletUnchanged
    /\ ScanFrame

\* Longest active chain explored while a rescan runs.
MaxScanHeight == 3

\* The blocks the node connects or disconnects while one rescan runs (the
\* program sets no limit).
MaxNodeEvents == 2

\* BuildWitnessCache holds the chain lock from its first statement to its
\* last: the node connects and disconnects no block meanwhile.
ChainLockFree ==
    IF scan.pc = "idle" THEN TRUE
    ELSE /\ scan.pc \notin {"catchup", "done"}
         /\ scan.nodeEvents < MaxNodeEvents

ScanSeesNodeEvent ==
    /\ scan' = IF scan.pc = "idle" THEN scan ELSE [scan EXCEPT !.nodeEvents = @ + 1]
    /\ UNCHANGED <<haveKeys, haveChangeKeys, migration, unloading, threads, network, nNow, walk, untouched>>

\* The node connects block b before or while the rescan runs:
\* BlockConnected, then ChainTip(added = true), in initial block download.
ConnectBlockDuringScan(b) ==
    /\ Running
    /\ ChainLockFree
    /\ Len(chain) < MaxScanHeight
    /\ b \in {0} \cup network
    /\ CanConnect(chain, b)
    /\ LET c == Append(chain, b)
           r == BlockConnected(c, W, nNow, haveKeys, b)
       IN  /\ chain' = c
           /\ SetW(ChainTip(c, r.w, b, Len(c), TRUE, TRUE))
           /\ last' = ScanOp("ConnectBlock", r.ok)
    /\ ScanSeesNodeEvent

\* The node disconnects the tip while the rescan runs.
DisconnectBlockDuringScan ==
    /\ Running
    /\ ChainLockFree
    /\ scan.pc # "idle"
    /\ Len(chain) > 0
    /\ LET b == chain[Len(chain)]
           c == SubSeq(chain, 1, Len(chain) - 1)
           r == BlockDisconnected(c, W, nNow, haveKeys, b)
       IN  /\ chain' = c
           /\ SetW(ChainTip(c, r.w, b, Len(chain), FALSE, FALSE))
           /\ last' = ScanOp("DisconnectBlock", r.ok)
    /\ ScanSeesNodeEvent

\* A wallet holding the shielded keys that follows the chain, as during
\* the initial block download, and is rescanned once.
InitScan ==
    /\ InitWallet
    /\ haveKeys = TRUE
    /\ network = {1, 3}

NextScan ==
    \/ \E b \in {0} \cup TxIds : ConnectBlockDuringScan(b)
    \/ DisconnectBlockDuringScan
    \/ ReserveScan
    \/ AbortRescan
    \/ RequestShutdown
    \/ ScanBeginStep
    \/ ScanBlockStep
    \/ ScanAdvanceStep
    \/ ScanCatchUpBeginStep
    \/ ScanCatchUpBlockStep
    \/ ScanReturnStep

SpecScan == InitScan /\ [][NextScan]_vars

\* The blocks from the start block up to and including block x.
BlocksUpTo(x) ==
    {HashAt(x, h) : h \in Len(scan.start_block) .. Len(x)}

\* C23: a cancellation requested for a rescan always takes effect: the call
\* returns USER_ABORT, whenever the abort flag was set or the shutdown
\* requested while the rescan was reserved or running.
C23_RequestTakesEffect ==
    (scan.pc = "done" /\ scan.requested) => scan.status = "USER_ABORT"

\* C24: when the call returns FAILURE, last_failed_block names a block; the
\* blocks from the start block to last_scanned_block that were not
\* processed could not be read and lie at or below last_failed_block, so
\* every block after last_failed_block up to last_scanned_block was
\* processed.
C24_ProcessedAfterLastFailure ==
    (scan.pc = "done" /\ scan.status = "FAILURE") =>
        /\ scan.last_failed_block # NullHash
        /\ \A x \in BlocksUpTo(scan.last_scanned_block) :
              x \notin scan.processed =>
                  /\ x \in scan.unread
                  /\ Len(x) <= Len(scan.last_failed_block)

\* A scan returned FAILURE with last_scanned_block after a block that
\* could not be read.
C24_Witness ==
    /\ scan.pc = "done"
    /\ scan.status = "FAILURE"
    /\ scan.last_scanned_block # NullHash
    /\ Len(scan.last_failed_block) < Len(scan.last_scanned_block)
    /\ scan.last_failed_block \in scan.unread

\* C24 as stated: when the call returns FAILURE, every block from the start
\* block up to and including last_scanned_block was processed.
C24_AllProcessedUpToLastScanned ==
    (scan.pc = "done" /\ scan.status = "FAILURE") =>
        BlocksUpTo(scan.last_scanned_block) \subseteq scan.processed

\* C27: once cancellation or shutdown is requested, the catch-up loop of
\* BuildWitnessCache processes no further block.
C27_CatchUpStopsOnRequest ==
    [][(scan.pc = "catchup" /\ (scan.fAbortRescan \/ scan.shutdownRequested))
          => last'.op # "BuildWitnessCacheBlock"]_vars

\* ------------------------------------------------------------------------
\* The handlers as the threads run them: where each takes cs_wallet, what
\* it does while it holds the mutex, where it gives it back.  A thread
\* inside LOCK(cs_wallet) remembers mapWallet as it was when it entered.
\* ------------------------------------------------------------------------

At(th) == threads.pc[th]

Holds(th) == threads.cs_wallet = th

SetThread(th, rec, owner) ==
    threads' = [pc |-> [threads.pc EXCEPT ![th] = rec], cs_wallet |-> owner]

LockOp(op, tx, ok) == [op |-> op, tx |-> tx, ret |-> FALSE, ok |-> ok]

LockFrame == UNCHANGED <<haveKeys, haveChangeKeys, migration, unloading, scan, nNow, walk, coins, setLockedCoins, keyPool, policy, create>>

\* LOCK(cs_wallet) as the first statement of a handler: the thread
\* proceeds once the mutex is free.
EnterLocked(th, rec) ==
    /\ Running
    /\ At(th) = IdleThread
    /\ threads.cs_wallet = "none"
    /\ SetThread(th, [op |-> rec.op, at |-> "locked", tx |-> rec.tx,
                      flag |-> rec.flag, before |-> mapWallet], th)
    /\ last' = LockOp("LOCK", rec.tx, TRUE)
    /\ WalletUnchanged
    /\ UNCHANGED <<chain, network, database>>
    /\ LockFrame

\* The end of the handler's scope: the mutex is released.
LeaveLocked(th) ==
    /\ Running
    /\ Holds(th)
    /\ At(th).at = "mutated"
    /\ SetThread(th, IdleThread, "none")
    /\ last' = LockOp("UNLOCK", At(th).tx, TRUE)
    /\ WalletUnchanged
    /\ UNCHANGED <<chain, network, database>>
    /\ LockFrame

\* CommitTransaction up to its lock, for a transaction the wallet built
\* from its own outputs; flag is forceError.
CommitTransactionLock(th, t, forceError) ==
    /\ t \in network \ DOMAIN mapWallet
    /\ ~InChain(chain, t)
    /\ \A p \in vin(t) \ {0} : p \in DOMAIN mapWallet
    /\ EnterLocked(th, [op |-> "CommitTransaction", tx |-> t, flag |-> forceError])

CommitTransactionAddStep(th) ==
    /\ Running
    /\ Holds(th)
    /\ At(th).op = "CommitTransaction"
    /\ At(th).at = "locked"
    /\ \E fBroadcastTransactions \in BOOLEAN :
          LET r == CommitTransactionAdd(chain, W, nNow, haveKeys, At(th).tx, At(th).flag,
                                        fBroadcastTransactions)
          IN  /\ SetW(r.w)
              /\ SetThread(th, [At(th) EXCEPT !.at = r.at], th)
              /\ last' = LockOp("AddToWallet", At(th).tx, r.ok)
    /\ UNCHANGED <<chain, network, database>>
    /\ LockFrame

CommitTransactionBroadcastStep(th) ==
    /\ Running
    /\ Holds(th)
    /\ At(th).at = "broadcasting"
    /\ \E ret \in BOOLEAN :
          /\ ret => CanEnterMempool(chain, mapWallet, At(th).tx)
          /\ SetW(CommitTransactionBroadcast(chain, W, At(th).tx, At(th).flag, ret))
          /\ last' = [op |-> "broadcastTransaction", tx |-> At(th).tx, ret |-> ret, ok |-> TRUE]
    /\ SetThread(th, [At(th) EXCEPT !.at = "mutated"], th)
    /\ UNCHANGED <<chain, network, database>>
    /\ LockFrame

\* The abandontransaction request: AbandonTransaction up to its lock.
AbandonTransactionLock(th, t) ==
    /\ t \in DOMAIN mapWallet
    /\ EnterLocked(th, [op |-> "AbandonTransaction", tx |-> t, flag |-> FALSE])

AbandonTransactionStep(th) ==
    /\ Running
    /\ Holds(th)
    /\ At(th).op = "AbandonTransaction"
    /\ At(th).at = "locked"
    /\ LET r == AbandonTransaction(chain, W, At(th).tx)
       IN  /\ SetW(r.w)
           /\ last' = LockOp("AbandonTransaction", At(th).tx, r.ret # "assert")
    /\ SetThread(th, [At(th) EXCEPT !.at = "mutated"], th)
    /\ UNCHANGED <<chain, network, database>>
    /\ LockFrame

\* The rescanning thread at one block of the active chain, up to its lock.
RescanBlockLock(th, h) ==
    /\ h \in 1 .. Len(chain)
    /\ EnterLocked(th, [op |-> "ScanForWalletTransactions", tx |-> h, flag |-> FALSE])

\* The block of ScanForWalletTransactions under LOCK(cs_wallet):
\* SyncTransaction for the transactions of the block at height h, then
\* BuildWitnessCache(pindex, true): [w, ok].
RescanBlock(c, w, now, keys, h) ==
    LET r == IF c[h] = 0
             THEN [w |-> w, ok |-> TRUE]
             ELSE AddToWalletIfInvolvingMe(c, w, now, keys, c[h], "CONFIRMED", HashAt(c, h), 0)
    IN  [w |-> BuildWitnessCache(c, r.w, h, TRUE), ok |-> r.ok]

RescanBlockStep(th) ==
    /\ Running
    /\ Holds(th)
    /\ At(th).op = "ScanForWalletTransactions"
    /\ At(th).at = "locked"
    /\ LET r == RescanBlock(chain, W, nNow, haveKeys, At(th).tx)
       IN  /\ SetW(r.w)
           /\ last' = LockOp("ScanBlock", 0, r.ok)
    /\ SetThread(th, [At(th) EXCEPT !.at = "mutated"], th)
    /\ UNCHANGED <<chain, network, database>>
    /\ LockFrame

\* ChainStateFlushed takes no lock.  Its loop reads mapWallet one entry per
\* iteration, in key order from the entry it read last; when TxnBegin fails
\* the handler returns at once.
FlushBeginStep(th, loc) ==
    /\ Running
    /\ At(th) = IdleThread
    /\ \E ok \in BOOLEAN :
          /\ SetThread(th, IF ok
                           THEN [op |-> "ChainStateFlushed", at |-> "write",
                                 b |-> TxnBegin(WalletBatch(database)),
                                 cursor |-> 0, loc |-> loc]
                           ELSE IdleThread,
                       threads.cs_wallet)
          /\ last' = [op |-> "TxnBegin", tx |-> 0, ret |-> ok, ok |-> TRUE]
    /\ WalletUnchanged
    /\ UNCHANGED <<chain, network, database>>
    /\ LockFrame

\* The entries of mapWallet the loop has not reached.
FlushRest(wallet, cursor) == {hash \in DOMAIN wallet : hash > cursor}

\* What "auto wtx = wtxItem.second" can copy.  The copy is not ordered with
\* the writes of a thread inside LOCK(cs_wallet): it is the entry as that
\* thread found it, the entry as it is, or note data of the one with the
\* rest of the other.
CopiesOf(wallet, hash) ==
    LET now == wallet[hash]
        racing == {th \in ThreadIds :
                      /\ Holds(th)
                      /\ hash \in DOMAIN At(th).before}
    IN  {now} \cup
        UNION {LET old == At(th).before[hash]
               IN  {old,
                    [now EXCEPT !.mapSaplingNoteData = old.mapSaplingNoteData,
                                !.mapSproutNoteData = old.mapSproutNoteData],
                    [old EXCEPT !.mapSaplingNoteData = now.mapSaplingNoteData,
                                !.mapSproutNoteData = now.mapSproutNoteData]} :
               th \in racing}

\* One iteration of the loop of ChainStateFlushed, with the copy it made and
\* whether WriteTx succeeded: the thread after it.
FlushWriteTx(pc, hash, wtx, ok) ==
    IF ~HasNoteData(wtx) THEN [pc EXCEPT !.cursor = hash]
    ELSE IF ok THEN [pc EXCEPT !.cursor = hash, !.b = WriteTx(pc.b, hash, wtx)]
    ELSE IdleThread

FlushWriteTxStep(th) ==
    /\ Running
    /\ At(th).op = "ChainStateFlushed"
    /\ At(th).at = "write"
    /\ LET rest == FlushRest(mapWallet, At(th).cursor)
       IN  IF rest = {}
           THEN /\ SetThread(th, [At(th) EXCEPT !.at = "finish"], threads.cs_wallet)
                /\ last' = [op |-> "WriteTx", tx |-> 0, ret |-> TRUE, ok |-> TRUE]
           ELSE \E wtx \in CopiesOf(mapWallet, SetMin(rest)), ok \in BOOLEAN :
                   /\ SetThread(th, FlushWriteTx(At(th), SetMin(rest), wtx, ok),
                                threads.cs_wallet)
                   /\ last' = [op |-> "WriteTx", tx |-> SetMin(rest), ret |-> ok, ok |-> TRUE]
    /\ WalletUnchanged
    /\ UNCHANGED <<chain, network, database>>
    /\ LockFrame

\* The statements of ChainStateFlushed after its loop, failing at one of
\* them or at none: the wallet file after.
FlushFinish(pc, at) ==
    LET b2 == WriteWitnessCacheSize(pc.b, nWitnessCacheSize)
        b3 == WriteBestBlock(b2, pc.loc)
    IN  IF at = "witness" THEN TxnAbort(pc.b).db
        ELSE IF at = "bestblock" THEN TxnAbort(b2).db
        ELSE TxnCommit(b3, at # "commit").db

FlushFinishStep(th) ==
    /\ Running
    /\ At(th).op = "ChainStateFlushed"
    /\ At(th).at = "finish"
    /\ \E at \in {"none", "witness", "bestblock", "commit"} :
          /\ database' = FlushFinish(At(th), at)
          /\ last' = [op |-> "ChainStateFlushed", tx |-> 0, ret |-> at = "none", ok |-> TRUE]
    /\ SetThread(th, IdleThread, threads.cs_wallet)
    /\ WalletUnchanged
    /\ UNCHANGED <<chain, network>>
    /\ LockFrame

\* A callback of the scheduler thread that locks cs_wallet for its whole
\* body can run when the thread is idle and the mutex free.
CallbackCanRun ==
    /\ At("scheduler") = IdleThread
    /\ threads.cs_wallet = "none"

\* Longest active chain explored while the threads interleave.
MaxLockHeight == 2

\* A wallet holding the shielded keys: the scheduler thread delivers the
\* blocks, the mempool entries and the flushes, a request thread commits
\* and abandons transactions and rescans blocks.
InitLock ==
    /\ InitWallet
    /\ haveKeys = TRUE
    /\ network = {1, 3}

NextLock ==
    \/ \E b \in {0} \cup TxIds : CallbackCanRun /\ ConnectBlock(b, TRUE, MaxLockHeight)
    \/ \E t \in TxIds : CallbackCanRun /\ TransactionAddedToMempool(t)
    \/ FlushBeginStep("scheduler", chain)
    \/ FlushWriteTxStep("scheduler")
    \/ FlushFinishStep("scheduler")
    \/ \E t \in TxIds, forceError \in BOOLEAN : CommitTransactionLock("rpc", t, forceError)
    \/ CommitTransactionAddStep("rpc")
    \/ CommitTransactionBroadcastStep("rpc")
    \/ \E t \in TxIds : AbandonTransactionLock("rpc", t)
    \/ AbandonTransactionStep("rpc")
    \/ \E h \in 1 .. MaxLockHeight : RescanBlockLock("rpc", h)
    \/ RescanBlockStep("rpc")
    \/ LeaveLocked("rpc")

SpecLock == InitLock /\ [][NextLock]_vars

\* The thread is in a call that broadcasts a transaction.
Broadcasting(th) == At(th).at = "broadcasting"

\* The thread is reading or writing mapWallet, the spend maps or a witness
\* buffer: it is inside a handler that mutates them, or in the loop of
\* ChainStateFlushed.
Accessing(th) ==
    \/ At(th).at \in {"locked", "broadcasting", "mutated"}
    \/ At(th).op = "ChainStateFlushed" /\ At(th).at = "write"

\* C21: no thread holds cs_wallet while a freshly built transaction is
\* broadcast.
C21_BroadcastWithoutLock ==
    \A th \in ThreadIds : Broadcasting(th) => threads.cs_wallet = "none"

\* C22: every thread that reads or mutates mapWallet, the spend maps or a
\* witness buffer holds cs_wallet for the whole access, the flush of
\* ChainStateFlushed included, so no two threads are in such an access at
\* the same time.
C22_AccessUnderLock ==
    \A th \in ThreadIds : Accessing(th) => Holds(th)

\* ------------------------------------------------------------------------
\* The passes of coin selection within one call of CreateTransaction
\* ------------------------------------------------------------------------

\* The value the pass starting in state st asks SelectCoins for.
ValueToSelect(st) ==
    SumAmounts(st.vecSend)
    + (IF SubtractFrom(st.vecSend) = {} THEN st.nFeeRet ELSE 0)

\* The pass starting in state st reaches its call of SelectCoins: no output
\* to a payee is dust and new inputs are to be picked.
Selects(p, st) ==
    /\ st.phase = "loop"
    /\ st.pick_new_inputs
    /\ \A k \in DOMAIN st.vecSend :
           ~IsDust(PayeeOutputs(st.vecSend, st.nFeeRet)[k].nValue, p.dustRelayFee)

\* What SelectCoins returns to the pass starting in state st.
SelectionOf(cs, locked, p, st) ==
    SelectCoins(cs, AvailableCoins(cs, locked, FALSE),
                AvailableCoins(cs, locked, TRUE), p, ValueToSelect(st),
                st.use_bnb, TxNoInputsOverhead + OutputSize * Len(st.vecSend))

\* The exact-fit selection of the pass starting in state st found nothing.
BnBFoundNothing(cs, locked, p, st) ==
    /\ Selects(p, st)
    /\ st.use_bnb
    /\ SelectionOf(cs, locked, p, st).sel = {}

\* C31: within one call of CreateTransaction a selection uses the exact-fit
\* pass only if it is the first selection of the call and no recipient has
\* the fee subtracted from its amount; when that pass finds nothing the
\* next pass selects for the same target with the knapsack pass; every
\* later selection of the call uses the knapsack pass.
C31_BnBOnlyFirstSelection ==
    [][create' # create =>
        /\ (Selects(policy, create) /\ create.use_bnb
               => create.iter = 0 /\ SubtractFrom(create.vecSend) = {})
        /\ (BnBFoundNothing(coins, setLockedCoins, policy, create)
               => /\ Selects(policy, create')
                  /\ ~create'.use_bnb
                  /\ ValueToSelect(create') = ValueToSelect(create))
        /\ (Selects(policy, create') => ~create'.use_bnb)]_vars

\* The exact-fit pass of a call found nothing and the knapsack pass then
\* selected coins for the same target.
C31_Witness ==
    /\ create.iter = 2
    /\ create.phase = "built"
    /\ create.setCoins # {}
    /\ BnBFoundNothing(coins, setLockedCoins, policy,
                       LoopStart(create.vecSend, create.nChangePosRequest))


\* ------------------------------------------------------------------------
\* The change output of the transaction CreateTransaction returns
\* ------------------------------------------------------------------------

\* Wallets and requests in which the exact-fit pass finds a selection at the
\* lowest fee rate, and in which the change left by a selection is exactly
\* the dust threshold of a high discard rate.
ExactCoinPools ==
    {<<Coin(33, FALSE, 6, FALSE)>>,
     <<Coin(33, FALSE, 6, FALSE), Coin(500, FALSE, 6, FALSE)>>,
     <<Coin(2000000, FALSE, 6, FALSE)>>}

ExactPolicies ==
    {PolicyOf(f, d, d, 10000000, FALSE, z) :
        f \in {1, 1000}, d \in {0, 3000000}, z \in BOOLEAN}

ExactRequests ==
    {LoopStart(<<Recipient(a, s)>>, pos) :
        a \in {30, 1454000}, s \in BOOLEAN, pos \in ChangePositions}

InitChange ==
    /\ InitLedger
    /\ scan = NoScan
    /\ threads = NoThreads
    /\ haveKeys = FALSE
    /\ network = {}
    /\ coins \in ExactCoinPools
    /\ setLockedCoins = {}
    /\ keyPool = EmptyKeyPool
    /\ policy \in ExactPolicies
    /\ create \in ExactRequests

SpecChange == InitChange /\ [][NextFee]_vars

\* The inputs of the loop state were selected by the exact-fit pass: no
\* recipient has the fee subtracted, so the first pass asked for it, and
\* the inputs are those of the first pass, kept by a second pass that
\* picked no new inputs.
ChosenByBnB(st) ==
    /\ SubtractFrom(st.vecSend) = {}
    /\ st.setCoins # {}
    /\ st.iter = 1 \/ (st.iter = 2 /\ ~st.pick_new_inputs)

\* The change outputs of a transaction.
ChangeOutputs(vout) == {k \in DOMAIN vout : vout[k].fChange}

\* C32: the transaction CreateTransaction built has no change output that
\* is dust at the discard rate, and no change output at all when its inputs
\* were selected by the exact-fit pass.
C32_ChangeNeverDustNoneAfterBnB ==
    create.phase = "built" =>
        /\ \A k \in ChangeOutputs(create.vout) :
               ~IsDust(create.vout[k].nValue, GetDiscardRate(policy))
        /\ ChosenByBnB(create) => ChangeOutputs(create.vout) = {}


\* ------------------------------------------------------------------------
\* The fee of the transaction CreateTransaction returns
\* ------------------------------------------------------------------------

\* The call whose loop ended in state st succeeds: the transaction is built
\* and its fee is within the limit of the wallet.
Succeeds(p, st) ==
    st.phase = "built" /\ st.nFeeRet <= p.m_default_max_tx_fee

\* The maximum signed size of the transaction of the loop state.
MaximumSignedTxSize(st) == TxSize(Cardinality(st.setCoins), Len(st.vout))

\* C33: when CreateTransaction succeeds the fee nFeeRet it returns is at
\* least the minimum fee of the maximum signed size of the transaction it
\* returns.
C33_FeeCoversMinimumFee ==
    Succeeds(policy, create) =>
        create.nFeeRet >= GetMinimumFee(policy, MaximumSignedTxSize(create))

\* A call succeeded after a pass that found the fee of the pass before it
\* too low, with a change output, at a fee rate above zero.
C33_Witness ==
    /\ Succeeds(policy, create)
    /\ create.iter >= 2
    /\ create.nFeeRet > 0
    /\ ChangeOutputs(create.vout) # {}
    /\ create.nFeeRet = GetMinimumFee(policy, MaximumSignedTxSize(create))


\* ------------------------------------------------------------------------
\* The value of the transaction CreateTransaction returns
\* ------------------------------------------------------------------------

RECURSIVE SumOutputs(_)
SumOutputs(vout) ==
    IF vout = << >> THEN 0 ELSE Head(vout).nValue + SumOutputs(Tail(vout))

\* C36: when CreateTransaction succeeds, the values of the selected inputs
\* add up to the values of all outputs of the transaction, recipients and
\* change, plus the fee nFeeRet, whether or not a recipient has the fee
\* subtracted from its amount.
C36_ValueConserved ==
    Succeeds(policy, create) =>
        /\ create.nValueIn = SumValues(coins, create.setCoins)
        /\ create.nValueIn = SumOutputs(create.vout) + create.nFeeRet

\* A call succeeded with a recipient that pays a fee above zero out of its
\* amount, with a change output.
C36_Witness ==
    /\ Succeeds(policy, create)
    /\ SubtractFrom(create.vecSend) # {}
    /\ create.nFeeRet > 0
    /\ ChangeOutputs(create.vout) # {}
    /\ create.nValueIn = SumOutputs(create.vout) + create.nFeeRet

\* ------------------------------------------------------------------------
\* Coin selection under coin control
\* ------------------------------------------------------------------------

\* The number of outputs of the wallet, and the most outpoints a caller
\* presets.
MaxControlCoins == 3
MaxPreset == 2

\* An output of the wallet with the state of its transaction: its depth,
\* whether the mempool holds it, whether IsSpent finds a spender that is
\* neither conflicted nor abandoned.
WalletCoin(nDepth, fInMempool, fSpent) ==
    [nValue |-> 30, fCoinbase |-> FALSE, nDepth |-> nDepth, fFromMe |-> TRUE,
     fSpent |-> fSpent, ancestors |-> IF fInMempool THEN 1 ELSE 0,
     descendants |-> IF fInMempool THEN 1 ELSE 0, fInMempool |-> fInMempool]

\* CWalletTx::IsTrusted of the transaction of a coin.
IsTrusted(coin, p) ==
    IF coin.nDepth >= 1 THEN TRUE
    ELSE IF coin.nDepth < 0 THEN FALSE
    ELSE IF ~p.m_spend_zero_conf_change \/ ~coin.fFromMe THEN FALSE
    ELSE coin.fInMempool

\* AvailableCoins as CreateTransaction calls it with a coin control: only
\* safe outputs, of a transaction in the chain or in the mempool, unlocked
\* and unspent; only the preset ones when no other input is allowed.
AvailableCoinsControl(cs, locked, p, fIncludeCoinbase, coinControl) ==
    {i \in DOMAIN cs :
        /\ cs[i].fCoinbase => fIncludeCoinbase
        /\ cs[i].nDepth >= 0
        /\ ~(cs[i].nDepth = 0 /\ ~cs[i].fInMempool)
        /\ IsTrusted(cs[i], p)
        /\ cs[i].nDepth >= coinControl.m_min_depth
        /\ cs[i].nValue >= 1
        /\ ~(/\ coinControl.setSelected # {}
              /\ ~coinControl.fAllowOtherInputs
              /\ i \notin coinControl.setSelected)
        /\ i \notin locked
        /\ ~cs[i].fSpent}

\* The selections of the cascade joined with the preset inputs.
WithPreset(cs, res, preset) ==
    [ok |-> res.sel # {},
     sel |-> {[setCoinsRet |-> s.setCoinsRet \cup preset,
               nValueRet |-> s.nValueRet + SumValues(cs, preset)] :
                 s \in res.sel}]

\* SelectCoins with a coin control: all the available preset outputs when
\* no other input is allowed; otherwise the preset outputs, looked up in
\* mapWallet and nowhere else, and the cascade over the other coins for what
\* the preset outputs do not cover.
SelectCoinsControl(cs, vCoinsNoCoinbase, vCoinsWithCoinbase, p, nTargetValue, coinControl, use_bnb, tx_noinputs_size) ==
    LET vCoins == IF p.fCoinbaseMustBeShielded THEN vCoinsNoCoinbase
                  ELSE vCoinsWithCoinbase
        preset == coinControl.setSelected
        nValueFromPresetInputs == SumValues(cs, preset)
    IN  IF preset # {} /\ ~coinControl.fAllowOtherInputs
        THEN [ok |-> SumValues(cs, vCoins) >= nTargetValue,
              sel |-> {[setCoinsRet |-> vCoins,
                        nValueRet |-> SumValues(cs, vCoins)]}]
        ELSE IF \E o \in preset : o \notin DOMAIN cs
        THEN [ok |-> FALSE, sel |-> {}]
        ELSE IF nTargetValue <= nValueFromPresetInputs
        THEN [ok |-> TRUE,
              sel |-> {[setCoinsRet |-> preset,
                        nValueRet |-> nValueFromPresetInputs]}]
        ELSE WithPreset(cs,
                 SelectCoins(cs, vCoinsNoCoinbase \ preset,
                             vCoinsWithCoinbase \ preset, p,
                             nTargetValue - nValueFromPresetInputs,
                             use_bnb /\ preset = {}, tx_noinputs_size),
                 preset)

\* What the call leaves: the inputs of the transaction, or the failure.
ControlDone(c, r) ==
    IF ~r.ok
    THEN {[c EXCEPT !.phase = "failed"]}
    ELSE {[c EXCEPT !.phase = "selected", !.setCoins = s.setCoinsRet,
                    !.nValueIn = s.nValueRet] : s \in r.sel}

\* The coin selection of one pass of CreateTransaction called with a coin
\* control: the two calls of AvailableCoins, then SelectCoins.
CreateTransactionSelect ==
    /\ create.phase = "control"
    /\ create' \in ControlDone(create,
           SelectCoinsControl(coins,
               AvailableCoinsControl(coins, setLockedCoins, policy, FALSE,
                                     create.coin_control),
               AvailableCoinsControl(coins, setLockedCoins, policy, TRUE,
                                     create.coin_control),
               policy, create.nTargetValue, create.coin_control,
               create.use_bnb, OneRecipientSize))
    /\ UNCHANGED <<chain, mapWallet, mapTxSpends, mapTxSproutNullifiers,
                   mapTxSaplingNullifiers, nOrderPosNext, wtxOrdered, haveKeys, haveChangeKeys, migration, unloading,
                   scan, threads, network, nNow, walk, database, coins, setLockedCoins,
                   keyPool, policy, last>>

\* The states of the transaction of an output: confirmed, confirmed and
\* spent, in the mempool, unconfirmed and not in the mempool, conflicted.
CoinKinds ==
    {WalletCoin(6, FALSE, FALSE), WalletCoin(6, FALSE, TRUE),
     WalletCoin(0, TRUE, FALSE), WalletCoin(0, FALSE, FALSE),
     WalletCoin(-1, FALSE, FALSE)}

\* The outpoints a caller can preset: those of the wallet and one the
\* wallet does not know.
CoinControls ==
    {[setSelected |-> S, fAllowOtherInputs |-> a, m_min_depth |-> 0] :
        S \in {T \in SUBSET (1 .. MaxControlCoins + 1) :
                  Cardinality(T) <= MaxPreset},
        a \in BOOLEAN}

InitControl ==
    /\ InitLedger
    /\ scan = NoScan
    /\ threads = NoThreads
    /\ haveKeys = FALSE
    /\ network = {}
    /\ coins \in [1 .. MaxControlCoins -> CoinKinds]
    /\ setLockedCoins \in {{}, {1}}
    /\ keyPool = EmptyKeyPool
    /\ policy \in {PolicyOf(0, 0, 0, 100, FALSE, z) : z \in BOOLEAN}
    /\ create \in {[phase |-> "control", nTargetValue |-> t,
                     coin_control |-> cc, use_bnb |-> TRUE,
                     setCoins |-> {}, nValueIn |-> 0] :
                        t \in {30, 60}, cc \in CoinControls}

NextControl == CreateTransactionSelect

SpecControl == InitControl /\ [][NextControl]_vars

\* The output can be spent by a new transaction: it is not locked, no
\* transaction of the wallet that is neither conflicted nor abandoned spends
\* it, and its transaction is in the chain or in the mempool.
Spendable(cs, locked, i) ==
    /\ i \in DOMAIN cs
    /\ i \notin locked
    /\ ~cs[i].fSpent
    /\ cs[i].nDepth >= 1 \/ cs[i].fInMempool

\* C37: every input of a transaction built by CreateTransaction is, when
\* selected, unlocked, unspent and of a transaction with depth at least 1 or
\* in the mempool, the inputs preset by coin control included.
C37_InputsSpendable ==
    create.phase = "selected" =>
        \A i \in create.setCoins : Spendable(coins, setLockedCoins, i)

\* ------------------------------------------------------------------------
\* ZapSelectTx and the spend index
\* ------------------------------------------------------------------------

\* CWallet::ZapSelectTx: the transactions the wallet file held and deleted
\* (vHashOut: every wallet transaction is written to the file) are erased
\* from wtxOrdered and from mapWallet, and from nowhere else.
ZapSelectTx(w, vHashIn) ==
    LET vHashOut == vHashIn \cap DOMAIN w.mapWallet
    IN  [w EXCEPT
           !.wtxOrdered = {e \in @ : e[2] \notin vHashOut},
           !.mapWallet = [t \in DOMAIN @ \ vHashOut |-> @[t]]]

\* The wtxids stored in the three spend maps.
SpendIndexIds ==
    UNION ({SeqRange(mapTxSpends[o]) : o \in DOMAIN mapTxSpends}
           \cup {SeqRange(mapTxSproutNullifiers[n]) :
                    n \in DOMAIN mapTxSproutNullifiers}
           \cup {SeqRange(mapTxSaplingNullifiers[n]) :
                    n \in DOMAIN mapTxSaplingNullifiers})

\* The most transactions removed from the wallet in one run: every order
\* position handed out belongs to a transaction added, so the positions
\* handed out less the transactions held are the transactions removed.
MaxRemoved == 1

\* The removeprunedfunds request for a wallet transaction.
RemovePrunedFunds(t) ==
    /\ Running
    /\ t \in DOMAIN mapWallet
    /\ nOrderPosNext - Cardinality(DOMAIN mapWallet) < MaxRemoved
    /\ SetW(ZapSelectTx(W, {t}))
    /\ last' = [op |-> "ZapSelectTx", tx |-> t, ret |-> TRUE, ok |-> TRUE]
    /\ UNCHANGED <<chain, haveKeys, haveChangeKeys, migration, unloading, scan, threads, network, nNow, walk, untouched>>

\* A wallet that follows the chain and the mempool and is asked to abandon
\* and to remove transactions.  The network relays the funding transaction
\* and its spender, and the double spend or a spender of the spender.
InitZap ==
    /\ InitWallet
    /\ haveKeys = FALSE
    /\ network \in {{1, 2, 3}, {1, 2, 5}}

NextZap ==
    \/ \E b \in {0} \cup TxIds : ConnectBlock(b, TRUE, MaxHeight)
    \/ DisconnectBlock
    \/ \E t \in TxIds : TransactionAddedToMempool(t)
    \/ \E t \in TxIds : TransactionRemovedFromMempool(t)
    \/ \E t \in TxIds : Abandon(t)
    \/ \E t \in TxIds : RemovePrunedFunds(t)

SpecZap == InitZap /\ [][NextZap]_vars

\* C35: every wtxid stored in mapTxSpends, mapTxSproutNullifiers or
\* mapTxSaplingNullifiers is a key of mapWallet, also after ZapSelectTx has
\* removed transactions.
C35_SpendIndexInWallet == SpendIndexIds \subseteq DOMAIN mapWallet


\* ------------------------------------------------------------------------
\* The assertions of the walk of AbandonTransaction
\* ------------------------------------------------------------------------

\* C38: under every interleaving of mempool notifications, block
\* notifications and abandon requests, every transaction the walk of
\* AbandonTransaction reaches has depth at most 0 and, when its depth is 0
\* and it is not abandoned, is not in the mempool: no assertion of the walk
\* fails.
C38_AbandonAssertionsHold ==
    last.op = "AbandonTransaction" => last.ok


\* ------------------------------------------------------------------------
\* GetSproutNoteWitnesses and GetSaplingNoteWitnesses
\* ------------------------------------------------------------------------

\* The notes of one kind the wallet holds, as [hash, op].
NotesHeld(wallet, kind) ==
    UNION {{[hash |-> t, op |-> op] : op \in DOMAIN NoteMap(wallet[t], kind)} :
             t \in DOMAIN wallet}

\* GetSproutNoteWitnesses / GetSaplingNoteWitnesses: the roots of the front
\* witnesses of the notes asked for that the wallet holds with a witness.
\* The call asserts that they are all equal.
NoteWitnessRoots(wallet, kind, notes) ==
    {WitnessRoot(Head(NoteMap(wallet[n.hash], kind)[n.op].witnesses)) :
        n \in {m \in notes :
                 /\ m.hash \in DOMAIN wallet
                 /\ m.op \in DOMAIN NoteMap(wallet[m.hash], kind)
                 /\ Len(NoteMap(wallet[m.hash], kind)[m.op].witnesses) > 0}}

\* A wallet that holds the keys of both its addresses and follows the
\* chain: tx 2 pays it a Sprout note, tx 4 spends that note and pays it the
\* change.
InitNotes ==
    /\ EmptyLedger
    /\ NoSpending
    /\ haveKeys = TRUE
    /\ haveChangeKeys = TRUE
    /\ migration = NoMigration
    /\ unloading = NoUnloading
    /\ network = {1, 2, 4}

SpecNotes == InitNotes /\ [][NextW]_vars

\* C39: in every reachable state, whatever wallet notes of one kind are
\* passed to GetSproutNoteWitnesses or GetSaplingNoteWitnesses, the front
\* witnesses returned all have the same root.
C39_SameAnchor ==
    \A kind \in {"sprout", "sapling"} :
        \A notes \in SUBSET NotesHeld(mapWallet, kind) :
            Cardinality(NoteWitnessRoots(mapWallet, kind, notes)) <= 1


\* ------------------------------------------------------------------------
\* The migration as the chain moves: the node connects and disconnects
\* blocks while the queue's worker runs the operations, which hand their
\* transactions to the wallet.
\* ------------------------------------------------------------------------

\* Longest active chain explored by the migration specification.
MaxMigrationHeight == 3

\* The transactions an operation can build: purely shielded ones.
MigrationTxs == {t \in TxIds : vin(t) = {}}

MigrationFrame == UNCHANGED <<chain, mapWallet, mapTxSpends, mapTxSproutNullifiers, mapTxSaplingNullifiers, nOrderPosNext, wtxOrdered, haveKeys, haveChangeKeys, unloading, scan, threads, network, nNow, walk, untouched>>

\* The queue's worker and the client that collects results: an operation
\* that is ready starts executing, an executing one succeeds, and one that
\* is cancelled or done is removed from the queue by the request that
\* fetches its result.
OperationAdvance(id) ==
    /\ Running
    /\ id \in DOMAIN migration.queue
    /\ migration' =
          [migration EXCEPT !.queue =
              IF @[id].state = "ready" THEN [@ EXCEPT ![id].state = "executing"]
              ELSE IF @[id].state = "executing" THEN [@ EXCEPT ![id].state = "success"]
              ELSE [i \in DOMAIN @ \ {id} |-> @[i]]]
    /\ last' = [op |-> "OperationAdvance", tx |-> id, ret |-> FALSE, ok |-> TRUE]
    /\ MigrationFrame

\* CWallet::AddPendingSaplingMigrationTx(tx), called by an executing
\* operation for a transaction it built.
AddPendingSaplingMigrationTx(t) ==
    /\ Running
    /\ \E id \in DOMAIN migration.queue : migration.queue[id].state = "executing"
    /\ t \in MigrationTxs
    /\ Len(migration.pendingSaplingMigrationTxs) < MaxPending
    /\ migration' = [migration EXCEPT !.pendingSaplingMigrationTxs = Append(@, t)]
    /\ last' = [op |-> "AddPendingSaplingMigrationTx", tx |-> t, ret |-> FALSE, ok |-> TRUE]
    /\ MigrationFrame

\* A wallet holding the shielded keys, started with or without -migration,
\* on a chain where Sapling is active from the first block or, with no
\* Sapling transaction relayed, from the last height explored.
InitMigration ==
    /\ EmptyLedger
    /\ NoSpending
    /\ haveKeys = TRUE
    /\ haveChangeKeys = FALSE
    /\ unloading = NoUnloading
    /\ \E enabled \in BOOLEAN :
          \/ /\ migration = [NoMigration EXCEPT !.fSaplingMigrationEnabled = enabled]
             /\ network = {1, 4}
          \/ /\ migration = [NoMigration EXCEPT !.fSaplingMigrationEnabled = enabled,
                                                !.nActivationHeight = MaxMigrationHeight]
             /\ network = {2}

NextMigration ==
    \/ \E b \in {0} \cup TxIds, witnessOnly \in BOOLEAN :
          ConnectBlock(b, witnessOnly, MaxMigrationHeight)
    \/ DisconnectBlock
    \/ \E id \in 1 .. MaxOperations : OperationAdvance(id)
    \/ \E t \in TxIds : AddPendingSaplingMigrationTx(t)

SpecMigration == InitMigration /\ [][NextMigration]_vars

\* Number of entries of a sequence equal to x.
CountOf(q, x) == Cardinality({i \in 1 .. Len(q) : q[i] = x})

\* RunSaplingMigration ran in the step: a block was connected outside
\* initial block download.
MigrationRan == last'.op = "ConnectBlock" /\ last'.ret /\ chain' # chain

\* The recorded operation, if the queue holds it, has been asked to cancel:
\* it is no longer ready to start.
RecordedCancelled ==
    migration.saplingMigrationOperationId \in DOMAIN migration.queue =>
        /\ migration'.queue[migration.saplingMigrationOperationId].state # "ready"
        /\ migration.queue[migration.saplingMigrationOperationId].state # "ready" =>
              migration'.queue[migration.saplingMigrationOperationId] =
              migration.queue[migration.saplingMigrationOperationId]

\* The operations of the queue other than the recorded one are as they were.
OthersUntouched ==
    \A id \in DOMAIN migration.queue \ {migration.saplingMigrationOperationId} :
        id \in DOMAIN migration'.queue /\ migration'.queue[id] = migration.queue[id]

\* What the claim says of a block connected at height Len(chain').
MigrationStep ==
    IF Len(chain') % MigrationPeriod = MigrationStart
    THEN /\ RecordedCancelled
         /\ OthersUntouched
         /\ migration'.pendingSaplingMigrationTxs = << >>
         /\ Cardinality(DOMAIN migration'.queue \ DOMAIN migration.queue) = 1
         /\ \A id \in DOMAIN migration'.queue \ DOMAIN migration.queue :
               /\ migration'.queue[id] =
                      [targetHeight |-> Len(chain') + (MigrationPeriod - MigrationStart),
                       state |-> "ready"]
               /\ migration'.saplingMigrationOperationId = id
         /\ last'.committed = << >>
    ELSE IF Len(chain') % MigrationPeriod = MigrationSend
    THEN /\ RecordedCancelled
         /\ OthersUntouched
         /\ DOMAIN migration'.queue = DOMAIN migration.queue
         /\ last'.committed = migration.pendingSaplingMigrationTxs
         /\ \A t \in SeqRange(migration.pendingSaplingMigrationTxs) : t \in DOMAIN mapWallet'
         /\ migration'.pendingSaplingMigrationTxs = << >>
    ELSE /\ migration'.queue = migration.queue
         /\ migration'.pendingSaplingMigrationTxs = migration.pendingSaplingMigrationTxs
         /\ last'.committed = << >>

\* C34 as stated: for every connected block, whatever the wallet's settings.
C34_MigrationAtEveryBlock ==
    [][(last'.op = "ConnectBlock" /\ chain' # chain) => MigrationStep]_vars

\* C34: when ChainTip runs RunSaplingMigration for a connected block at
\* height h (the node is out of initial block download and the block is
\* recent) in a wallet started with -migration, on a chain where Sapling is
\* active at h: at the start height of a round the recorded operation is
\* cancelled if it has not started, the pending transactions are cleared
\* and one new operation targeting the end of the round is enqueued and
\* recorded; at the send height the recorded operation is cancelled
\* likewise and CommitTransaction is called once for each pending
\* transaction, in order, before the list is cleared; at any other height
\* the queue and the pending list are unchanged.
C34_MigrationSchedules ==
    [][(/\ MigrationRan
        /\ migration.fSaplingMigrationEnabled
        /\ NetworkUpgradeActive(migration, Len(chain'))) => MigrationStep]_vars

\* Reached: a send height committed two pending transactions, after a
\* second operation replaced the first in the queue.
C34_Witness ==
    /\ last.op = "ConnectBlock"
    /\ last.ret
    /\ Len(last.committed) = MaxPending
    /\ migration.pendingSaplingMigrationTxs = << >>
    /\ Cardinality(DOMAIN migration.queue) = MaxOperations
    /\ \E id \in DOMAIN migration.queue : migration.queue[id].state = "cancelled"


\* ------------------------------------------------------------------------
\* Unloading a wallet.  The wallet object is owned by shared pointers whose
\* deleter is ReleaseWallet: the wallet list, the requests and the user
\* interface that fetched it with GetWallet, and the handle of the caller of
\* UnloadWallet.  The thread that drops the last reference runs the deleter.
\* ------------------------------------------------------------------------

WalletName == "w"

\* Who can fetch the wallet from the list; "unloader" goes on to unload it.
Holders == {"unloader", "rpc", "gui"}

\* Longest active chain explored while the wallet is unloaded.
MaxUnloadHeight == 2

\* The statements of ReleaseWallet, by what has been done when they end.
ReleaseOrder ==
    <<"running", "synced", "flushed", "unregistered", "deleted", "done">>

\* An UnloadWallet that does not wait for the name to leave the set.
WaitOverAtOnce(u) == TRUE

\* The test of the wait loop of UnloadWallet:
\* while (g_unloading_wallet_set.count(name) == 1) wait
WaitOver(u) == WalletName \notin u.g_unloading_wallet_set

\* A shared pointer held by h is reset or destroyed: the last one gone, the
\* deleter starts in the thread of h.
DropReference(u, h) ==
    IF u.holders \ {h} = {}
    THEN [u EXCEPT !.holders = {}, !.release = "running", !.releasedBy = h]
    ELSE [u EXCEPT !.holders = @ \ {h}]

\* The next statement of ReleaseWallet: BlockUntilSyncedToCurrentChain,
\* Flush, m_chain_notifications_handler.reset(), delete wallet, and the
\* erasure of the name from g_unloading_wallet_set (with notify_all when a
\* name was erased).
ReleaseWallet(u) ==
    LET i == CHOOSE k \in 1 .. Len(ReleaseOrder) : ReleaseOrder[k] = u.release
    IN  [u EXCEPT !.release = ReleaseOrder[i + 1],
                  !.g_unloading_wallet_set =
                      IF ReleaseOrder[i + 1] = "done" THEN @ \ {WalletName} ELSE @]

\* The next statement of UnloadWallet(wallet): [u, ok].  The insertion into
\* the set is asserted to be new; wallet.reset() returns once the deleter,
\* if this was the last reference, has run.
UnloadWallet(u) ==
    IF u.pc = "idle"
    THEN [u |-> [u EXCEPT !.pc = "marked",
                          !.g_unloading_wallet_set = @ \cup {WalletName}],
          ok |-> WalletName \notin u.g_unloading_wallet_set]
    ELSE IF u.pc = "marked"
    THEN [u |-> [u EXCEPT !.pc = "notified"], ok |-> TRUE]
    ELSE IF u.pc = "notified"
    THEN [u |-> [DropReference(u, "unloader") EXCEPT !.pc = "waiting"], ok |-> TRUE]
    ELSE [u |-> [u EXCEPT !.pc = "returned"], ok |-> TRUE]

\* Whether the caller of UnloadWallet can take its next step: inside
\* wallet.reset() it runs the deleter if it dropped the last reference, and
\* in the wait loop it sleeps until the test lets it go.
UnloadCanStep(u) ==
    /\ "unloader" \in u.holders \/ u.pc = "waiting"
    /\ u.pc # "returned"
    /\ u.pc = "waiting" =>
          /\ u.releasedBy = "unloader" => u.release = "done"
          /\ WaitOver(u)

UnloadFrame == UNCHANGED <<chain, mapWallet, mapTxSpends, mapTxSproutNullifiers, mapTxSaplingNullifiers, nOrderPosNext, wtxOrdered, haveKeys, haveChangeKeys, migration, scan, threads, network, nNow, walk, untouched>>

\* GetWallet(name) by h, outside UnloadWallet: a copy of the pointer the
\* list holds.
GetWallet(h) ==
    /\ Running
    /\ "vpwallets" \in unloading.holders
    /\ h \notin unloading.holders
    /\ h = "unloader" => unloading.pc = "idle"
    /\ unloading' = [unloading EXCEPT !.holders = @ \cup {h}]
    /\ last' = [op |-> "GetWallet", tx |-> 0, ret |-> TRUE, ok |-> TRUE]
    /\ UnloadFrame

\* RemoveWallet(wallet) by a holder of the wallet.
RemoveWallet(h) ==
    /\ Running
    /\ h \in unloading.holders
    /\ "vpwallets" \in unloading.holders
    /\ h = "unloader" => unloading.pc = "idle"
    /\ unloading' = [unloading EXCEPT !.holders = @ \ {"vpwallets"}]
    /\ last' = [op |-> "RemoveWallet", tx |-> 0, ret |-> TRUE, ok |-> TRUE]
    /\ UnloadFrame

\* A holder other than the caller of UnloadWallet lets its pointer go.
ReleaseHolder(h) ==
    /\ Running
    /\ h \in unloading.holders \ {"vpwallets"}
    /\ h = "unloader" => unloading.pc = "idle"
    /\ unloading' = DropReference(unloading, h)
    /\ last' = [op |-> "reset", tx |-> 0, ret |-> unloading'.release = "running", ok |-> TRUE]
    /\ UnloadFrame

\* The deleter runs its next statement.
ReleaseWalletStep ==
    /\ Running
    /\ unloading.release \notin {"none", "done"}
    /\ unloading' = ReleaseWallet(unloading)
    /\ last' = [op |-> "ReleaseWallet", tx |-> 0, ret |-> unloading'.release = "done", ok |-> TRUE]
    /\ UnloadFrame

\* The caller of UnloadWallet runs its next statement.
UnloadWalletStep ==
    /\ Running
    /\ UnloadCanStep(unloading)
    /\ unloading' = UnloadWallet(unloading).u
    /\ last' = [op |-> "UnloadWallet", tx |-> 0, ret |-> unloading'.pc = "returned",
                ok |-> UnloadWallet(unloading).ok]
    /\ UnloadFrame

\* The wallet receives the notifications of the chain until the deleter has
\* reset its handler.
WalletNotified == unloading.release \in {"none", "running", "synced", "flushed"}

InitUnload ==
    /\ InitWallet
    /\ haveKeys = FALSE
    /\ network = {1}

NextUnload ==
    \/ \E h \in Holders : GetWallet(h)
    \/ \E h \in Holders : RemoveWallet(h)
    \/ \E h \in Holders : ReleaseHolder(h)
    \/ ReleaseWalletStep
    \/ UnloadWalletStep
    \/ \E b \in {0} \cup TxIds : WalletNotified /\ ConnectBlock(b, TRUE, MaxUnloadHeight)
    \/ WalletNotified /\ DisconnectBlock

SpecUnload == InitUnload /\ [][NextUnload]_vars

\* C40: whenever UnloadWallet has returned, the deleter ReleaseWallet has
\* run to its end for the wallet (synced, flushed, handler reset, object
\* deleted, name erased from the unloading set) and nobody holds a
\* reference to the wallet.
C40_UnloadAfterRelease ==
    unloading.pc = "returned" =>
        /\ unloading.release = "done"
        /\ unloading.holders = {}
        /\ WalletName \notin unloading.g_unloading_wallet_set

\* Reached: UnloadWallet returned after waiting for a reference that
\* another holder kept and let go last.
C40_Witness ==
    /\ unloading.pc = "returned"
    /\ unloading.releasedBy \in {"rpc", "gui"}


====
